---------------------------- MODULE Spec2Model ----------------------------
(***************************************************************************)
(* A model of the Strom voice assistant's rule-based NLP engine            *)
(* (src/core/nlp_engine.py): the keyword intent classifier, the per-intent *)
(* entity extractors and the top-level process function, together with the *)
(* callers that reach one engine from several threads (src/gui.py).        *)
(*                                                                         *)
(* Texts are TLA+ strings handled character by character (Len, SubSeq,     *)
(* \o), so substring search, str.lower, str.strip and the regular          *)
(* expressions are modelled by what they do to the characters.             *)
(***************************************************************************)
EXTENDS Integers, Sequences, FiniteSets, TLC

VARIABLES
    intent_patterns,   \* NLPEngine.intent_patterns: ordered intent -> keywords
    app_aliases,       \* NLPEngine.app_aliases: ordered alias -> canonical name
    op,                \* the engine method the caller is in ("none": between calls)
    text,              \* the text argument of the last call
    intent,            \* the intent returned by (or passed to) the last call
    entities,          \* the entities map returned by the last call
    calls,             \* the engine methods the last call invoked, in order
    t_pc,              \* per GUI thread: its position inside NLPEngine.process
    t_text,            \* per GUI thread: the text argument (a local)
    t_intent,          \* per GUI thread: the local variable intent
    t_entities,        \* per GUI thread: the local variable entities
    current_context,       \* ConversationManager.current_context
    conversation_history,  \* ConversationManager.conversation_history
    last_intent,           \* ConversationManager.last_intent
    last_entities,         \* ConversationManager.last_entities
    log,                   \* the calls made on the manager, oldest first
    step,              \* StromAssistant.process: the step the turn has reached
    command,           \* the caller's user_input, the argument of process
    user_input,        \* process: the local user_input, reassigned twice
    turn_intent,       \* process: the local intent
    turn_entities,     \* process: the local entities
    response,          \* process: the local response
    routed,            \* the intents router.route has been called with
    returned,          \* what the last call of process returned
    wake_word,         \* HotwordListener.wake_word
    stop_word,         \* HotwordListener.stop_word
    is_active,         \* HotwordListener.is_active
    heard,             \* the text recognised in the last piece of audio
    detection,         \* listen_loop: the local detection
    reminders,         \* TaskManager.reminders
    reminders_file,    \* what data/reminders.json holds (None: no file)
    writable,          \* whether the reminders file can be written
    notifications,     \* the ids of the reminders handed to _trigger_reminder
    wall_clock,        \* datetime.now()
    checker,           \* where the checker thread is
    now,               \* _check_reminders_loop: the local now
    next_index         \* _check_reminders_loop: the index of the list iterator

vars == <<intent_patterns, app_aliases, op, text, intent, entities, calls,
          t_pc, t_text, t_intent, t_entities,
          current_context, conversation_history, last_intent, last_entities, log,
          step, command, user_input, turn_intent, turn_entities, response,
          routed, returned, wake_word, stop_word, is_active, heard, detection,
          reminders, reminders_file, writable, notifications, wall_clock, checker,
          now, next_index>>

engine == <<intent_patterns, app_aliases>>
caller == <<op, text, intent, entities, calls>>
threads == <<t_pc, t_text, t_intent, t_entities>>
manager == <<current_context, conversation_history, last_intent, last_entities, log>>
turn == <<step, command, user_input, turn_intent, turn_entities, response, routed, returned>>
assistant == <<manager, turn>>
listener == <<wake_word, stop_word, is_active, heard, detection>>
tasks == <<reminders, reminders_file, writable, notifications, wall_clock, checker,
           now, next_index>>

-----------------------------------------------------------------------------
(* Characters and the str methods the engine uses.                         *)

LowerAlphabet == "abcdefghijklmnopqrstuvwxyz"
UpperAlphabet == "ABCDEFGHIJKLMNOPQRSTUVWXYZ"
Digits == "0123456789"

CharAt(s, i) == SubSeq(s, i, i)

CharsOf(a) == {CharAt(a, i) : i \in 1..Len(a)}

\* The 1-based position of character c in alphabet a.
IndexIn(a, c) == CHOOSE i \in 1..Len(a) : CharAt(a, i) = c

LowerChars == CharsOf(LowerAlphabet)
UpperChars == CharsOf(UpperAlphabet)
DigitChars == CharsOf(Digits)
DigitValue == [c \in DigitChars |-> IndexIn(Digits, c) - 1]
ToLower == [c \in UpperChars |-> CharAt(LowerAlphabet, IndexIn(UpperAlphabet, c))]

\* The character classes \s, \d and \w.
IsSpace(c) == c \in {" ", "\t", "\n"}
IsDigit(c) == c \in DigitChars
IsWord(c) == c \in LowerChars \cup UpperChars \cup DigitChars \cup {"_"}

LowerChar(c) == IF c \in UpperChars THEN ToLower[c] ELSE c

\* Evaluate v once and apply F to its value (a local variable assigned once
\* and then read several times).
Eager(v, F(_)) == CHOOSE r \in {F(x) : x \in {v}} : TRUE

\* str.lower()
RECURSIVE LowerFrom(_, _)
LowerFrom(s, i) ==
    IF i > Len(s) THEN "" ELSE LowerChar(CharAt(s, i)) \o LowerFrom(s, i + 1)

lower(s) == LowerFrom(s, 1)

\* str.strip(): leading and trailing whitespace removed.
strip(s) ==
    LET kept == {i \in 1..Len(s) : ~IsSpace(CharAt(s, i))}
    IN  IF kept = {} THEN ""
        ELSE SubSeq(s, CHOOSE a \in kept : \A k \in kept : a <= k,
                       CHOOSE b \in kept : \A k \in kept : k <= b)

\* s[i:] starts with p
StartsWithAt(s, i, p) ==
    /\ i + Len(p) - 1 <= Len(s)
    /\ SubSeq(s, i, i + Len(p) - 1) = p

\* Python's `p in s` for strings.
Contains(p, s) == \E i \in 1..(Len(s) - Len(p) + 1) : StartsWithAt(s, i, p)

\* int(s) for a string of decimal digits.
RECURSIVE IntPrefix(_, _)
IntPrefix(s, n) ==
    IF n = 0 THEN 0 ELSE 10 * IntPrefix(s, n - 1) + DigitValue[CharAt(s, n)]

int(s) == IntPrefix(s, Len(s))

-----------------------------------------------------------------------------
(* NLPEngine.__init__: the two tables, in insertion order.                  *)

IntentPatterns == <<
    [intent |-> "shutdown",      keywords |-> <<"shutdown", "shut down", "power off", "turn off computer">>],
    [intent |-> "restart",       keywords |-> <<"restart", "reboot", "reset computer">>],
    [intent |-> "lock",          keywords |-> <<"lock", "lock screen", "lock computer">>],
    [intent |-> "sleep",         keywords |-> <<"sleep", "hibernate", "suspend">>],
    [intent |-> "open_app",      keywords |-> <<"open", "launch", "start", "run">>],
    [intent |-> "close_app",     keywords |-> <<"close", "quit", "exit", "kill">>],
    [intent |-> "volume",        keywords |-> <<"volume", "sound", "mute", "unmute">>],
    [intent |-> "brightness",    keywords |-> <<"brightness", "screen brightness", "dim", "brighten">>],
    [intent |-> "set_alarm",     keywords |-> <<"alarm", "wake me", "set alarm">>],
    [intent |-> "set_reminder",  keywords |-> <<"remind", "reminder", "remember">>],
    [intent |-> "create_todo",   keywords |-> <<"todo", "to do", "task", "add task">>],
    [intent |-> "list_todos",    keywords |-> <<"list tasks", "show tasks", "what tasks", "my tasks">>],
    [intent |-> "set_timer",     keywords |-> <<"timer", "set timer", "countdown">>],
    [intent |-> "send_whatsapp", keywords |-> <<"whatsapp", "send whatsapp", "message on whatsapp">>],
    [intent |-> "send_email",    keywords |-> <<"email", "send email", "mail">>],
    [intent |-> "weather",       keywords |-> <<"weather", "temperature", "forecast">>],
    [intent |-> "time",          keywords |-> <<"time", "what time", "current time">>],
    [intent |-> "date",          keywords |-> <<"date", "what date", "today">>],
    [intent |-> "news",          keywords |-> <<"news", "headlines", "latest news">>],
    [intent |-> "search",        keywords |-> <<"search", "look up", "find", "google">>],
    [intent |-> "wikipedia",     keywords |-> <<"wikipedia", "wiki", "tell me about">>],
    [intent |-> "greeting",      keywords |-> <<"hello", "hi", "hey", "good morning", "good afternoon", "good evening">>],
    [intent |-> "thanks",        keywords |-> <<"thank", "thanks", "thank you">>],
    [intent |-> "goodbye",       keywords |-> <<"bye", "goodbye", "see you", "exit">>],
    [intent |-> "help",          keywords |-> <<"help", "what can you do", "commands", "capabilities">>]
>>

AppAliases == <<
    [alias |-> "chrome",     full_name |-> "google chrome"],
    [alias |-> "browser",    full_name |-> "google chrome"],
    [alias |-> "notepad",    full_name |-> "notepad"],
    [alias |-> "calculator", full_name |-> "calculator"],
    [alias |-> "calc",       full_name |-> "calculator"],
    [alias |-> "word",       full_name |-> "microsoft word"],
    [alias |-> "excel",      full_name |-> "microsoft excel"],
    [alias |-> "powerpoint", full_name |-> "microsoft powerpoint"],
    [alias |-> "explorer",   full_name |-> "file explorer"],
    [alias |-> "files",      full_name |-> "file explorer"],
    [alias |-> "code",       full_name |-> "visual studio code"],
    [alias |-> "vscode",     full_name |-> "visual studio code"],
    [alias |-> "spotify",    full_name |-> "spotify"],
    [alias |-> "music",      full_name |-> "spotify"]
>>

-----------------------------------------------------------------------------
(* NLPEngine.extract_intent                                                 *)

\* for keyword in keywords: if keyword in text_lower: return intent
RECURSIVE AnyKeywordFrom(_, _, _)
AnyKeywordFrom(keywords, k, text_lower) ==
    IF k > Len(keywords) THEN FALSE
    ELSE IF Contains(keywords[k], text_lower) THEN TRUE
    ELSE AnyKeywordFrom(keywords, k + 1, text_lower)

\* ScanIntents with the table walked from its last entry to its first, so
\* that of several matching intents the one listed last is returned.
RECURSIVE ScanIntentsLastWins(_, _, _)
ScanIntentsLastWins(patterns, i, text_lower) ==
    IF i > Len(patterns) THEN "general_query"
    ELSE IF AnyKeywordFrom(patterns[Len(patterns) + 1 - i].keywords, 1, text_lower)
         THEN patterns[Len(patterns) + 1 - i].intent
    ELSE ScanIntentsLastWins(patterns, i + 1, text_lower)

\* for intent, keywords in self.intent_patterns.items(): ... return intent
\* and, the table exhausted, return 'general_query'.
RECURSIVE ScanIntents(_, _, _)
ScanIntents(patterns, i, text_lower) ==
    IF i > Len(patterns) THEN "general_query"
    ELSE IF AnyKeywordFrom(patterns[i].keywords, 1, text_lower) THEN patterns[i].intent
    ELSE ScanIntents(patterns, i + 1, text_lower)

\* extract_intent without .lower(): the keywords are compared with the text
\* as it was typed.
extract_intent_case_sensitive(patterns, t) ==
    Eager(strip(t), LAMBDA text_lower : ScanIntents(patterns, 1, text_lower))

\* extract_intent with the blank-text test of process moved into it.
extract_intent_blank_unknown(patterns, t) ==
    IF strip(t) = "" THEN "unknown"
    ELSE Eager(strip(lower(t)), LAMBDA text_lower : ScanIntents(patterns, 1, text_lower))

extract_intent(patterns, t) ==
    Eager(strip(lower(t)), LAMBDA text_lower : ScanIntents(patterns, 1, text_lower))

-----------------------------------------------------------------------------
(* Regular-expression pieces shared by the extractors.  A search result is   *)
(* <<>> for no match (re.search returned None) and <<g>> for a match whose   *)
(* capture group is g.                                                       *)

NoMatch == <<>>
Matched(m) == m # NoMatch
Group(m) == m[1]

\* The index of the last character of the longest run of characters of class
\* P starting at i (i - 1 when the run is empty): a greedy \s*, \d+ or \w+.
SpanEnd(s, i, P(_)) ==
    CHOOSE j \in (i - 1)..Len(s) :
        /\ \A k \in i..j : P(CharAt(s, k))
        /\ (j = Len(s) \/ ~P(CharAt(s, j + 1)))

\* r'kw\s+(\w+)' matched at position i.
WordAfterAt(s, i, kw) ==
    LET a == i + Len(kw)
        b == SpanEnd(s, a, IsSpace)
        c == SpanEnd(s, b + 1, IsWord)
    IN  IF StartsWithAt(s, i, kw) /\ b >= a /\ c >= b + 1
        THEN <<SubSeq(s, b + 1, c)>>
        ELSE NoMatch

\* (\w+(?:\s+\w+)?) matched at position i: one word, and a second one when
\* whitespace and another word follow.
TwoWordsAt(s, i) ==
    LET c  == SpanEnd(s, i, IsWord)
        b2 == SpanEnd(s, c + 1, IsSpace)
        c2 == SpanEnd(s, b2 + 1, IsWord)
    IN  IF c < i THEN NoMatch
        ELSE IF b2 >= c + 1 /\ c2 >= b2 + 1 THEN <<SubSeq(s, i, c2)>>
        ELSE <<SubSeq(s, i, c)>>

\* r'(?:to|message)\s+(\w+(?:\s+\w+)?)' matched at position i.
RecipientAfterToAt(s, i) ==
    LET kws == {kw \in {"to", "message"} : StartsWithAt(s, i, kw)}
        kw == CHOOSE k \in kws : TRUE
        a == i + Len(kw)
        b == SpanEnd(s, a, IsSpace)
    IN  IF kws = {} THEN NoMatch
        ELSE IF b < a THEN NoMatch
        ELSE TwoWordsAt(s, b + 1)

\* r'(?:whatsapp|email)\s+(?:to\s+)?(\w+(?:\s+\w+)?)' matched at position i:
\* the optional 'to' is taken when a word follows it, and given back otherwise.
RecipientAfterChannelAt(s, i) ==
    LET kws == {kw \in {"whatsapp", "email"} : StartsWithAt(s, i, kw)}
        kw == CHOOSE k \in kws : TRUE
        a == i + Len(kw)
        b == SpanEnd(s, a, IsSpace)
        b3 == SpanEnd(s, b + 3, IsSpace)
        withTo == IF StartsWithAt(s, b + 1, "to") /\ b3 >= b + 3
                  THEN TwoWordsAt(s, b3 + 1)
                  ELSE NoMatch
    IN  IF kws = {} THEN NoMatch
        ELSE IF b < a THEN NoMatch
        ELSE IF Matched(withTo) THEN withTo
        ELSE TwoWordsAt(s, b + 1)

NotNewline(c) == c # "\n"

\* r'(?:k1|k2|...)\s+(.+)' matched at position i: the capture runs to the end
\* of the line; \s+ gives characters back when nothing follows it.
RestAfterAt(s, i, keywords) ==
    LET kws == {kw \in keywords : StartsWithAt(s, i, kw)}
        kw == CHOOSE k \in kws : TRUE
        a == i + Len(kw)
        b == SpanEnd(s, a, IsSpace)
        top == IF b + 1 <= Len(s) THEN b + 1 ELSE Len(s)
        Q == {q \in (a + 1)..top : NotNewline(CharAt(s, q))}
        q == CHOOSE x \in Q : \A y \in Q : y <= x
    IN  IF kws = {} THEN NoMatch
        ELSE IF b < a \/ Q = {} THEN NoMatch
        ELSE <<SubSeq(s, q, SpanEnd(s, q, NotNewline))>>

Periods == <<"am", "pm", "a.m.", "p.m.">>

\* r'(\d{1,2})(?::(\d{2}))?\s*(am|pm|a\.m\.|p\.m\.)?' matched at position i:
\* its three groups, "" for a group that did not take part in the match (None).
TimeMatchAt(s, i) ==
    LET h == IF i + 1 <= Len(s) /\ IsDigit(CharAt(s, i + 1)) THEN i + 1 ELSE i
        hasMin == /\ h + 3 <= Len(s)
                  /\ CharAt(s, h + 1) = ":"
                  /\ IsDigit(CharAt(s, h + 2))
                  /\ IsDigit(CharAt(s, h + 3))
        e == IF hasMin THEN h + 3 ELSE h
        w == SpanEnd(s, e + 1, IsSpace)
        alts == {k \in 1..Len(Periods) : StartsWithAt(s, w + 1, Periods[k])}
    IN  IF ~IsDigit(CharAt(s, i)) THEN NoMatch
        ELSE <<[g1 |-> SubSeq(s, i, h),
                g2 |-> IF hasMin THEN SubSeq(s, h + 2, h + 3) ELSE "",
                g3 |-> IF alts = {} THEN ""
                       ELSE Periods[CHOOSE k \in alts : \A j \in alts : k <= j]]>>

\* r'(\d+)\s*(?:u1|u2|...)' matched at position i.
NumberUnitAt(s, i, units) ==
    LET d == SpanEnd(s, i, IsDigit)
        w == SpanEnd(s, d + 1, IsSpace)
    IN  IF d >= i /\ \E u \in units : StartsWithAt(s, w + 1, u)
        THEN <<int(SubSeq(s, i, d))>>
        ELSE NoMatch

\* The patterns handed to re.search.
WordAfter(kw) == [re |-> "word_after", kw |-> kw]
RecipientAfterTo == [re |-> "recipient_after_to"]
RecipientAfterChannel == [re |-> "recipient_after_channel"]
RestAfter(keywords) == [re |-> "rest_after", keywords |-> keywords]
TimePattern == [re |-> "time"]
NumberUnit(units) == [re |-> "number_unit", units |-> units]

MatchAt(pat, s, i) ==
    CASE pat.re = "word_after" -> WordAfterAt(s, i, pat.kw)
      [] pat.re = "recipient_after_to" -> RecipientAfterToAt(s, i)
      [] pat.re = "recipient_after_channel" -> RecipientAfterChannelAt(s, i)
      [] pat.re = "rest_after" -> RestAfterAt(s, i, pat.keywords)
      [] pat.re = "time" -> TimeMatchAt(s, i)
      [] pat.re = "number_unit" -> NumberUnitAt(s, i, pat.units)

\* re.search(pat, s): the match at the leftmost position that has one.
RECURSIVE SearchFrom(_, _, _)
SearchFrom(pat, s, i) ==
    IF i > Len(s) THEN NoMatch
    ELSE Eager(MatchAt(pat, s, i),
               LAMBDA m : IF Matched(m) THEN m ELSE SearchFrom(pat, s, i + 1))

re_search(pat, s) == SearchFrom(pat, s, 1)

-----------------------------------------------------------------------------
(* NLPEngine._extract_app_name                                              *)

\* for alias, full_name in self.app_aliases.items(): if alias in text: return
RECURSIVE ScanAliases(_, _, _)
ScanAliases(aliases, a, t) ==
    IF a > Len(aliases) THEN NoMatch
    ELSE IF Contains(aliases[a].alias, t) THEN <<aliases[a].full_name>>
    ELSE ScanAliases(aliases, a + 1, t)

AppNamePatterns == <<"open", "launch", "close", "start">>

\* for pattern in patterns: match = re.search(pattern, text); if match: return
RECURSIVE ScanAppPatterns(_, _)
ScanAppPatterns(p, t) ==
    IF p > Len(AppNamePatterns) THEN "unknown"
    ELSE Eager(re_search(WordAfter(AppNamePatterns[p]), t),
               LAMBDA match : IF Matched(match) THEN Group(match)
                              ELSE ScanAppPatterns(p + 1, t))

\* _extract_app_name with the two steps swapped: the word after the command
\* verb is preferred to an alias found in the text.
_extract_app_name_verb_first(aliases, t) ==
    Eager(ScanAppPatterns(1, t),
          LAMBDA word : IF word # "unknown" THEN word
                        ELSE Eager(ScanAliases(aliases, 1, t),
                                   LAMBDA found : IF Matched(found) THEN Group(found)
                                                  ELSE "unknown"))

_extract_app_name(aliases, t) ==
    Eager(ScanAliases(aliases, 1, t),
          LAMBDA found : IF Matched(found) THEN Group(found) ELSE ScanAppPatterns(1, t))

-----------------------------------------------------------------------------
(* NLPEngine._extract_time                                                  *)

\* ConvertHour without the tests on 12: every pm hour gets 12 added and every
\* am hour is kept.
ConvertHourNoTwelve(hour, period) ==
    IF period # "" /\ Contains("pm", lower(period)) THEN hour + 12
    ELSE hour

\* Convert to 24-hour format (the if / elif on period).
ConvertHour(hour, period) ==
    IF period # "" /\ Contains("pm", lower(period)) /\ hour # 12 THEN hour + 12
    ELSE IF period # "" /\ Contains("am", lower(period)) /\ hour = 12 THEN 0
    ELSE hour

\* Extract hour and minute.
ClockInfo(t) ==
    Eager(re_search(TimePattern, t),
          LAMBDA match :
              IF ~Matched(match) THEN <<>>
              ELSE ("hour" :> ConvertHour(int(Group(match).g1), Group(match).g3))
                   @@ ("minute" :> (IF Group(match).g2 # "" THEN int(Group(match).g2)
                                    ELSE 0)))

DurationPatterns == <<[unit |-> "hour", factor |-> 3600],
                      [unit |-> "minute", factor |-> 60],
                      [unit |-> "second", factor |-> 1]>>

\* DurationLoop that stops at the first pattern that matches, as a loop
\* with a break would.
RECURSIVE DurationLoopFirstMatch(_, _, _)
DurationLoopFirstMatch(p, t, time_info) ==
    IF p > Len(DurationPatterns) THEN time_info
    ELSE Eager(re_search(NumberUnit({DurationPatterns[p].unit}), t),
               LAMBDA match :
                   IF Matched(match)
                   THEN ("duration_seconds" :> Group(match) * DurationPatterns[p].factor)
                        @@ time_info
                   ELSE DurationLoopFirstMatch(p + 1, t, time_info))

\* for i, pattern in enumerate(duration_patterns): every pattern is tried and
\* a later match overwrites time_info['duration_seconds'].
RECURSIVE DurationLoop(_, _, _)
DurationLoop(p, t, time_info) ==
    IF p > Len(DurationPatterns) THEN time_info
    ELSE Eager(re_search(NumberUnit({DurationPatterns[p].unit}), t),
               LAMBDA match :
                   IF Matched(match)
                   THEN DurationLoop(p + 1, t,
                            ("duration_seconds" :> Group(match) * DurationPatterns[p].factor)
                            @@ time_info)
                   ELSE DurationLoop(p + 1, t, time_info))

_extract_time(t) == DurationLoop(1, t, ClockInfo(t))

-----------------------------------------------------------------------------
(* NLPEngine._extract_recipient and _extract_message                        *)

\* _extract_recipient with the sentinel of _extract_app_name: 'unknown' when
\* no pattern matches.
_extract_recipient_unknown(t) ==
    Eager(re_search(RecipientAfterTo, t),
          LAMBDA m1 :
              IF Matched(m1) THEN strip(Group(m1))
              ELSE Eager(re_search(RecipientAfterChannel, t),
                         LAMBDA m2 : IF Matched(m2) THEN strip(Group(m2)) ELSE "unknown"))

_extract_recipient(t) ==
    Eager(re_search(RecipientAfterTo, t),
          LAMBDA m1 :
              IF Matched(m1) THEN strip(Group(m1))
              ELSE Eager(re_search(RecipientAfterChannel, t),
                         LAMBDA m2 : IF Matched(m2) THEN strip(Group(m2)) ELSE ""))

_extract_message(t) ==
    Eager(re_search(RestAfter({"saying", "message", "text"}), t),
          LAMBDA m1 :
              IF Matched(m1) THEN strip(Group(m1))
              ELSE Eager(re_search(RestAfter({"that", "tell them"}), t),
                         LAMBDA m2 : IF Matched(m2) THEN strip(Group(m2)) ELSE ""))

-----------------------------------------------------------------------------
(* NLPEngine._extract_task_text and _extract_search_query                   *)

\* str.replace(old, ''): every non-overlapping occurrence, left to right.
RECURSIVE ReplaceFrom(_, _, _)
ReplaceFrom(s, old, i) ==
    IF i > Len(s) THEN ""
    ELSE IF StartsWithAt(s, i, old) THEN ReplaceFrom(s, old, i + Len(old))
    ELSE CharAt(s, i) \o ReplaceFrom(s, old, i + 1)

replace_empty(s, old) == ReplaceFrom(s, old, 1)

RemoveWords == <<"todo", "to do", "task", "remind", "reminder", "create", "add", "set">>

\* for word in remove_words: clean_text = clean_text.replace(word, '')
RECURSIVE RemoveWordsLoop(_, _)
RemoveWordsLoop(k, clean_text) ==
    IF k > Len(RemoveWords) THEN clean_text
    ELSE Eager(replace_empty(clean_text, RemoveWords[k]),
               LAMBDA c : RemoveWordsLoop(k + 1, c))

\* The words of a phrase, each followed by \s+, matched at position i: the
\* index of the last character matched, 0 when the phrase does not match.
RECURSIVE WordsEnd(_, _, _, _)
WordsEnd(s, i, words, k) ==
    IF k > Len(words) THEN i - 1
    ELSE LET a == i + Len(words[k])
             b == SpanEnd(s, a, IsSpace)
         IN  IF StartsWithAt(s, i, words[k]) /\ b >= a
             THEN WordsEnd(s, b + 1, words, k + 1)
             ELSE 0

\* The end of the match of one of the substitution patterns at position i
\* (0: no match at i).
MatchEnd(pat, s, i) ==
    CASE pat = "at_time" ->
           \* r'at\s+\d{1,2}(?::\d{2})?\s*(?:am|pm)?'
           LET b == WordsEnd(s, i, <<"at">>, 1)
               h == IF b + 2 <= Len(s) /\ IsDigit(CharAt(s, b + 2)) THEN b + 2 ELSE b + 1
               hasMin == /\ h + 3 <= Len(s)
                         /\ CharAt(s, h + 1) = ":"
                         /\ IsDigit(CharAt(s, h + 2))
                         /\ IsDigit(CharAt(s, h + 3))
               e == IF hasMin THEN h + 3 ELSE h
               w == SpanEnd(s, e + 1, IsSpace)
           IN  IF b = 0 \/ b + 1 > Len(s) THEN 0
               ELSE IF ~IsDigit(CharAt(s, b + 1)) THEN 0
               ELSE IF StartsWithAt(s, w + 1, "am") \/ StartsWithAt(s, w + 1, "pm")
                    THEN w + 2
               ELSE w
      [] pat = "in_duration" ->
           \* r'(?:in|after)\s+\d+\s+(?:hour|minute|second)s?'
           LET b == IF StartsWithAt(s, i, "in") THEN WordsEnd(s, i, <<"in">>, 1)
                    ELSE WordsEnd(s, i, <<"after">>, 1)
               d == SpanEnd(s, b + 1, IsDigit)
               w == SpanEnd(s, d + 1, IsSpace)
               units == {u \in {"hour", "minute", "second"} : StartsWithAt(s, w + 1, u)}
               u == CHOOSE x \in units : TRUE
               e == w + Len(u)
           IN  IF b = 0 THEN 0
               ELSE IF d < b + 1 \/ w < d + 1 \/ units = {} THEN 0
               ELSE IF StartsWithAt(s, e + 1, "s") THEN e + 1
               ELSE e
      [] pat = "search" ->
           \* r'search\s+(?:for\s+)?'
           LET b == WordsEnd(s, i, <<"search">>, 1)
               f == WordsEnd(s, b + 1, <<"for">>, 1)
           IN  IF b = 0 THEN 0 ELSE IF f # 0 THEN f ELSE b
      [] pat = "look_up" -> WordsEnd(s, i, <<"look", "up">>, 1)
      [] pat = "find" ->
           \* r'find\s+(?:me\s+)?'
           LET b == WordsEnd(s, i, <<"find">>, 1)
               f == WordsEnd(s, b + 1, <<"me">>, 1)
           IN  IF b = 0 THEN 0 ELSE IF f # 0 THEN f ELSE b
      [] pat = "google" -> WordsEnd(s, i, <<"google">>, 1)
      [] pat = "wikipedia" -> WordsEnd(s, i, <<"wikipedia">>, 1)
      [] pat = "tell_me_about" -> WordsEnd(s, i, <<"tell", "me", "about">>, 1)

\* re.sub(pattern, '', s): the non-overlapping matches, leftmost first.
RECURSIVE SubFrom(_, _, _)
SubFrom(pat, s, i) ==
    IF i > Len(s) THEN ""
    ELSE Eager(MatchEnd(pat, s, i),
               LAMBDA e : IF e # 0 THEN SubFrom(pat, s, e + 1)
                          ELSE CharAt(s, i) \o SubFrom(pat, s, i + 1))

re_sub_empty(pat, s) == SubFrom(pat, s, 1)

_extract_task_text(t) ==
    Eager(RemoveWordsLoop(1, t),
          LAMBDA clean1 :
              Eager(re_sub_empty("at_time", clean1),
                    LAMBDA clean2 : strip(re_sub_empty("in_duration", clean2))))

RemovePatterns == <<"search", "look_up", "find", "google", "wikipedia", "tell_me_about">>

\* for pattern in remove_patterns: clean_text = re.sub(pattern, '', clean_text)
RECURSIVE RemovePatternsLoop(_, _)
RemovePatternsLoop(k, clean_text) ==
    IF k > Len(RemovePatterns) THEN clean_text
    ELSE Eager(re_sub_empty(RemovePatterns[k], clean_text),
               LAMBDA c : RemovePatternsLoop(k + 1, c))

_extract_search_query(t) == strip(RemovePatternsLoop(1, t))

-----------------------------------------------------------------------------
(* NLPEngine._extract_level and _extract_action                             *)

\* Optional[int]: None is <<>>, the integer n is <<n>>.
None == <<>>
Some(n) == <<n>>

AnyIn(words, t) == \E w \in words : Contains(w, t)

\* _extract_level with the keyword tests made before the search for a
\* percentage.
_extract_level_keywords_first(t) ==
    IF AnyIn({"max", "maximum", "full", "hundred"}, t) THEN Some(100)
    ELSE IF AnyIn({"min", "minimum", "zero"}, t) THEN Some(0)
    ELSE IF AnyIn({"half", "fifty"}, t) THEN Some(50)
    ELSE Eager(re_search(NumberUnit({"percent", "%"}), t),
               LAMBDA m : IF Matched(m) THEN Some(Group(m)) ELSE None)

_extract_level(t) ==
    Eager(re_search(NumberUnit({"percent", "%"}), t),
          LAMBDA m :
              IF Matched(m) THEN Some(Group(m))
              ELSE IF AnyIn({"max", "maximum", "full", "hundred"}, t) THEN Some(100)
              ELSE IF AnyIn({"min", "minimum", "zero"}, t) THEN Some(0)
              ELSE IF AnyIn({"half", "fifty"}, t) THEN Some(50)
              ELSE None)

_extract_action(t) ==
    IF AnyIn({"up", "increase", "raise", "higher", "louder", "brighter"}, t) THEN "increase"
    ELSE IF AnyIn({"down", "decrease", "lower", "dimmer", "quieter"}, t) THEN "decrease"
    ELSE IF Contains("mute", t) \/ Contains("silent", t) THEN "mute"
    ELSE IF Contains("unmute", t) THEN "unmute"
    ELSE "set"

-----------------------------------------------------------------------------
(* NLPEngine.extract_entities and NLPEngine.process                         *)

EmptyMap == <<>>

\* The dict that results from applying the updates in parts, in order, to {}:
\* a key has the value of the last update that sets it.
MergeAll(parts) ==
    [k \in UNION {DOMAIN parts[j] : j \in DOMAIN parts} |->
        parts[CHOOSE j \in DOMAIN parts :
                 /\ k \in DOMAIN parts[j]
                 /\ \A h \in DOMAIN parts : h > j => k \notin DOMAIN parts[h]][k]]

\* extract_entities with the blocks chained by elif: only the first block whose
\* intent list holds the intent adds its keys.
EntitiesForFirstBlock(aliases, text_lower, i) ==
    IF i \in {"open_app", "close_app"}
    THEN "app_name" :> _extract_app_name(aliases, text_lower)
    ELSE IF i \in {"send_whatsapp", "send_email"}
    THEN MergeAll(<<"recipient" :> _extract_recipient(text_lower),
                    "message" :> _extract_message(text_lower)>>)
    ELSE IF i \in {"set_alarm", "set_reminder", "set_timer"}
    THEN _extract_time(text_lower)
    ELSE IF i \in {"create_todo", "set_reminder"}
    THEN "task" :> _extract_task_text(text_lower)
    ELSE IF i \in {"search", "wikipedia"}
    THEN "query" :> _extract_search_query(text_lower)
    ELSE IF i \in {"volume", "brightness"}
    THEN MergeAll(<<"level" :> _extract_level(text_lower),
                    "action" :> _extract_action(text_lower)>>)
    ELSE EmptyMap

\* entities = {} followed by the six independent `if intent in [...]` blocks, each
\* adding its keys to the map.
EntitiesFor(aliases, text_lower, i) ==
    Eager(<<IF i \in {"open_app", "close_app"}
            THEN "app_name" :> _extract_app_name(aliases, text_lower)
            ELSE EmptyMap,
            IF i \in {"send_whatsapp", "send_email"}
            THEN "recipient" :> _extract_recipient(text_lower)
            ELSE EmptyMap,
            IF i \in {"send_whatsapp", "send_email"}
            THEN "message" :> _extract_message(text_lower)
            ELSE EmptyMap,
            IF i \in {"set_alarm", "set_reminder", "set_timer"}
            THEN _extract_time(text_lower)
            ELSE EmptyMap,
            IF i \in {"create_todo", "set_reminder"}
            THEN "task" :> _extract_task_text(text_lower)
            ELSE EmptyMap,
            IF i \in {"search", "wikipedia"}
            THEN "query" :> _extract_search_query(text_lower)
            ELSE EmptyMap,
            IF i \in {"volume", "brightness"}
            THEN "level" :> _extract_level(text_lower)
            ELSE EmptyMap,
            IF i \in {"volume", "brightness"}
            THEN "action" :> _extract_action(text_lower)
            ELSE EmptyMap>>,
          LAMBDA parts : MergeAll(parts))

extract_entities(aliases, t, i) ==
    Eager(strip(lower(t)), LAMBDA text_lower : EntitiesFor(aliases, text_lower, i))

\* process without its test for blank text.
process_no_blank_test(patterns, aliases, t) ==
    Eager(extract_intent(patterns, t),
          LAMBDA i : [intent |-> i,
                      entities |-> extract_entities(aliases, t, i),
                      calls |-> <<"extract_intent", "extract_entities">>])

\* The (intent, entities) tuple process returns, with the engine methods it
\* called on the way.
process(patterns, aliases, t) ==
    IF t = "" \/ strip(t) = ""
    THEN [intent |-> "unknown", entities |-> EmptyMap, calls |-> <<>>]
    ELSE Eager(extract_intent(patterns, t),
               LAMBDA i : [intent |-> i,
                           entities |-> extract_entities(aliases, t, i),
                           calls |-> <<"extract_intent", "extract_entities">>])

-----------------------------------------------------------------------------
(* The utterances the callers pass in.                                      *)

MaxWords == 2      \* words in a freely composed utterance
MaxPad == 2        \* whitespace characters before and after an utterance

\* str(n) for a natural number.
RECURSIVE str(_)
str(n) == IF n < 10 THEN CharAt(Digits, n + 1)
          ELSE str(n \div 10) \o CharAt(Digits, (n % 10) + 1)

\* A minute as the two digits of MM.
TwoDigits(n) == CharAt(Digits, (n \div 10) + 1) \o CharAt(Digits, (n % 10) + 1)

Words == {"open", "launch", "start", "close", "exit", "Chrome", "notepad",
          "xyz123", "banana", "hello"}

RECURSIVE Sentences(_)
Sentences(n) ==
    IF n <= 1 THEN Words
    ELSE LET S == Sentences(n - 1)
         IN  S \cup {s \o " " \o w : s \in S, w \in Words}

\* Every keyword of the table, said on its own.
KeywordTexts ==
    UNION {{IntentPatterns[i].keywords[k] : k \in 1..Len(IntentPatterns[i].keywords)}
           : i \in 1..Len(IntentPatterns)}

RECURSIVE Pads(_)
Pads(n) ==
    IF n = 0 THEN {""}
    ELSE LET P == Pads(n - 1)
         IN  P \cup {p \o c : p \in P, c \in {" ", "\t"}}

BlankTexts == Pads(MaxPad)
PaddedTexts == {l \o w \o r : l \in Pads(MaxPad), w \in {"Exit", "banana"}, r \in Pads(MaxPad)}

\* Clock times H[:MM][ ][period] inside an alarm command.
ClockHours == 1..12
ClockMinutes == {None, Some(5), Some(30)}      \* None: the ":MM" part is left out
PeriodWords == {"", "am", "pm", "a.m.", "p.m."}
ClockFrames == {<<"set alarm for ", "">>, <<"Wake Me At ", " Please">>}

ClockPhrase(h, mm, sp, p) ==
    str(h) \o (IF mm = None THEN "" ELSE ":" \o TwoDigits(mm[1])) \o sp \o p

ClockText(f, h, mm, sp, p) == f[1] \o ClockPhrase(h, mm, sp, p) \o f[2]

ClockTexts ==
    {ClockText(f, h, mm, sp, p) :
        f \in ClockFrames, h \in ClockHours, mm \in ClockMinutes,
        sp \in {"", " "}, p \in PeriodWords}

\* Duration phrases, alone and next to a clock time, inside a reminder.
DurationCounts == {2, 10, 45}
DurationUnits == {"hour", "minute", "second"}
DurationPhrase(n, u, pl) == "in " \o str(n) \o " " \o u \o pl
DurationPhrases == {DurationPhrase(n, u, pl) : n \in DurationCounts, u \in DurationUnits, pl \in {"", "s"}}
AtClockPhrases == {"at " \o ClockPhrase(h, None, "", p) : h \in {5, 12}, p \in {"am", "pm"}}
                  \cup {"at " \o ClockPhrase(7, Some(30), " ", "pm")}
ReminderLead == "remind me "

DurationOnly(d) == ReminderLead \o d
ClockOnly(c) == ReminderLead \o c
DurationThenClock(d, c) == ReminderLead \o d \o " " \o c
ClockThenDuration(d, c) == ReminderLead \o c \o " " \o d

DurationTexts ==
    {DurationOnly(d) : d \in DurationPhrases}
    \cup {ClockOnly(c) : c \in AtClockPhrases}
    \cup {DurationThenClock(d, c) : d \in DurationPhrases, c \in AtClockPhrases}
    \cup {ClockThenDuration(d, c) : d \in DurationPhrases, c \in AtClockPhrases}

\* Commands that name an application in ways two words cannot.
AppTexts == {"open notepad and Chrome", "close the music", "launch  xyz123 now",
             "please close xyz123 and open banana", "start the calc", "Open\tVSCode"}

\* One command for each kind of entity.
EntityTexts == {"open Chrome", "open xyz123", "banana", "whatsapp to john saying hi",
                "set alarm for 7:30 pm", "remind me in 2 hours", "add task buy milk",
                "search for cats", "volume 50 percent", " "}

\* Reminders and to-dos, with and without a time and a number.
TaskTexts == {"remind me to call mom at 5pm", "Remind me to buy groceries at 5 PM",
              "create a todo to finish the report", "add task water plants in 2 hours",
              "remind me at set 5pm", "complete task 3", "delete number 3", "show task"}

\* Searches: each lead-in with a subject, and lead-ins with nothing after them.
SearchTexts == {"search for python tutorials", "Search For Cats", "search cats",
                "look up cats", "find me a recipe", "find cats", "google cats",
                "wikipedia mars", "tell me about mars", "wiki mars",
                "search", "google", "find", "search for", "cats search"}

\* Volume and brightness commands: up to two level words and a percentage ...
LevelWords == {"", "max", "maximum", "full", "hundred", "min", "minimum", "zero",
               "half", "fifty"}
PercentPhrases == {"", "50 percent", "80%", "7 %", "150 percent"}
LevelText(w1, w2, pc) == "set volume to " \o w1 \o " " \o w2 \o " " \o pc
LevelTexts == {LevelText(w1, w2, pc) : w1 \in LevelWords, w2 \in LevelWords, pc \in PercentPhrases}

\* ... and commands with the words that select the action.
ActionTexts == {"set volume to 50 percent", "turn volume up", "volume down",
                "increase brightness", "lower the volume", "make the sound quieter",
                "brightness higher", "mute", "unmute", "unmute the sound", "Unmute volume",
                "silent volume", "volume up and unmute", "dim the screen", "brighten"}

\* Messages, with and without a recipient and a text.
MessageTexts == {"send whatsapp to john saying hello there", "Send WhatsApp to John saying hello",
                 "whatsapp john", "email to mother", "send email", "whatsapp to",
                 "email saying", "send whatsapp message hi", "email john that i am late"}

\* Texts on which a pattern matches in part or not at all.
OddTexts == {"alarm 7:", "alarm :30 pm", "alarm", "timer", "timer : am", "timer 0 seconds",
             "alarm 99:99 pm", "timer 99999 hours", "volume %",
             "volume percent", "remind", "open ", "close\t", "launch !", "7", "%", ":"}

\* Times no clock shows, and timers with more than one duration phrase.
RangeTexts == {"alarm at 45", "set alarm for 13 pm", "alarm at 7:75", "alarm at 0",
               "set alarm for 23:59", "alarm at 12:60 am", "remind me at 24"}

\* Timers of one or two duration phrases, each a count and a unit.
TimerCounts == {1, 30}
TimerPhrase(d) == str(d.n) \o " " \o d.unit \o d.plural
TimerDurations == [n : TimerCounts, unit : DurationUnits, plural : {"", "s"}]
TimerOne(d) == "timer " \o TimerPhrase(d)
TimerTwo(d1, d2) == "timer " \o TimerPhrase(d1) \o " " \o TimerPhrase(d2)

TimerTexts ==
    {TimerOne(d) : d \in TimerDurations}
    \cup {TimerTwo(d1, d2) : d1 \in TimerDurations, d2 \in TimerDurations}
    \cup {"set timer for 5 seconds", "timer 1 hour 30 minutes 15 seconds",
          "timer for 3 minutes and 1 hour"}

Utterances ==
    Sentences(MaxWords) \cup KeywordTexts \cup BlankTexts \cup PaddedTexts
    \cup ClockTexts \cup DurationTexts \cup AppTexts \cup EntityTexts
    \cup TaskTexts \cup SearchTexts \cup LevelTexts \cup ActionTexts
    \cup MessageTexts \cup OddTexts \cup RangeTexts \cup TimerTexts

Intents == {IntentPatterns[i].intent : i \in 1..Len(IntentPatterns)}
           \cup {"general_query", "unknown"}

-----------------------------------------------------------------------------
(* ConversationManager, Security and CommandRouter, as StromAssistant.process *)
(* uses them.                                                                *)

\* str.replace(old, new): every non-overlapping occurrence of old, left to
\* right, replaced by new.
RECURSIVE ReplaceWithFrom(_, _, _, _)
ReplaceWithFrom(s, old, new, i) ==
    IF i > Len(s) THEN ""
    ELSE IF StartsWithAt(s, i, old) THEN new \o ReplaceWithFrom(s, old, new, i + Len(old))
    ELSE CharAt(s, i) \o ReplaceWithFrom(s, old, new, i + 1)

replace(s, old, new) == ReplaceWithFrom(s, old, new, 1)

\* dict.get(k, default)
GetOr(d, k, default) == IF k \in DOMAIN d THEN d[k] ELSE default

\* The two gates of resolve_pronoun_reference, tested on the lower-cased text.
ItWords == {"it", "that", "this"}
ThemWords == {"him", "her", "them"}

\* resolve_pronoun_reference: str.replace on the text as given, the first
\* block with last_app, the second with last_recipient.
resolve_pronoun_reference(context, t) ==
    Eager(lower(t),
          LAMBDA text_lower :
              Eager(IF (\E w \in ItWords : Contains(w, text_lower))
                       /\ "last_app" \in DOMAIN context
                    THEN replace(replace(t, "it", context["last_app"]),
                                 "that", context["last_app"])
                    ELSE t,
                    LAMBDA t1 :
                        IF (\E w \in ThemWords : Contains(w, text_lower))
                           /\ "last_recipient" \in DOMAIN context
                        THEN replace(replace(replace(t1, "him", context["last_recipient"]),
                                             "her", context["last_recipient"]),
                                     "them", context["last_recipient"])
                        ELSE t1))

\* _update_context that keeps what it already remembers: a key is written
\* only when the context does not hold it yet.
_update_context_keeping(context, i, e) ==
    IF i \in {"open_app", "close_app"}
    THEN MergeAll(<<"last_app" :> GetOr(e, "app_name", None), context>>)
    ELSE IF i \in {"send_whatsapp", "send_email"}
    THEN MergeAll(<<"last_recipient" :> GetOr(e, "recipient", None),
                    "last_message" :> GetOr(e, "message", None), context>>)
    ELSE IF i \in {"search", "wikipedia"}
    THEN MergeAll(<<"last_query" :> GetOr(e, "query", None), context>>)
    ELSE IF i \in {"set_alarm", "set_reminder"}
    THEN MergeAll(<<"last_time" :> GetOr(e, "hour", None), context>>)
    ELSE context

\* _update_context: the one key group the intent belongs to is overwritten.
_update_context(context, i, e) ==
    IF i \in {"open_app", "close_app"}
    THEN MergeAll(<<context, "last_app" :> GetOr(e, "app_name", None)>>)
    ELSE IF i \in {"send_whatsapp", "send_email"}
    THEN MergeAll(<<context, "last_recipient" :> GetOr(e, "recipient", None),
                    "last_message" :> GetOr(e, "message", None)>>)
    ELSE IF i \in {"search", "wikipedia"}
    THEN MergeAll(<<context, "last_query" :> GetOr(e, "query", None)>>)
    ELSE IF i \in {"set_alarm", "set_reminder"}
    THEN MergeAll(<<context, "last_time" :> GetOr(e, "hour", None)>>)
    ELSE context

max_history == 50

\* _save_history: the list is cut to its last max_history entries before the
\* file is written; when os.makedirs raises, the except block is entered
\* before the cut.
_save_history(history, makedirs_ok) ==
    IF makedirs_ok /\ Len(history) > max_history
    THEN SubSeq(history, Len(history) - max_history + 1, Len(history))
    ELSE history

\* The exchange add_exchange appends (its timestamp is left out).
Exchange(u, i, e, r) == [user_input |-> u, intent |-> i, entities |-> e, response |-> r]

\* add_exchange(user_input, intent, entities, response): what the call does to
\* the manager, the directory of the history file being there to write to or
\* not.
add_exchange(u, i, e, r, makedirs_ok) ==
    /\ conversation_history' =
           _save_history(Append(conversation_history, Exchange(u, i, e, r)), makedirs_ok)
    /\ last_intent' = i
    /\ last_entities' = e
    /\ current_context' = _update_context(current_context, i, e)
    /\ log' = Append(log, [call |-> "add_exchange", intent |-> i, entities |-> e])

\* Security.sanitize_input. The list of the code also holds the back quote,
\* a character no string of this module can hold; no utterance here has one.
DangerousChars == <<";", "|", "&", "$", "(", ")">>

RECURSIVE SanitizeLoop(_, _)
SanitizeLoop(k, sanitized) ==
    IF k > Len(DangerousChars) THEN sanitized
    ELSE Eager(replace_empty(sanitized, DangerousChars[k]),
               LAMBDA c : SanitizeLoop(k + 1, c))

sanitize_input(t) == strip(SanitizeLoop(1, t))

\* Security.validate_command
BlockedApps == {"system", "kernel", "init", "systemd", "explorer"}

ProtectedPaths == {"/system", "/windows", "C:\\Windows", "C:\\System32",
                   "/bin", "/sbin", "/usr/bin"}

_is_protected_path(path) ==
    \E protected \in ProtectedPaths : Contains(lower(protected), lower(path))

validate_command(i, e) ==
    IF i \in {"shutdown", "restart"}
    THEN [valid |-> TRUE, msg |-> "Command requires confirmation. Proceeding..."]
    ELSE Eager(lower(GetOr(e, "app_name", "")),
               LAMBDA app_name :
                   IF i \in {"open_app", "close_app"}
                      /\ \E blocked \in BlockedApps : Contains(blocked, app_name)
                   THEN [valid |-> FALSE,
                         msg |-> "Cannot operate on system-critical process: " \o app_name]
                   ELSE IF "path" \in DOMAIN e /\ _is_protected_path(e["path"])
                   THEN [valid |-> FALSE,
                         msg |-> "Access denied to protected path: " \o e["path"]]
                   ELSE [valid |-> TRUE, msg |-> "Command validated."])

\* CommandRouter.route_map
RouteMap ==
    <<[intent |-> "shutdown", module |-> "system_control", method |-> "shutdown"],
      [intent |-> "restart", module |-> "system_control", method |-> "restart"],
      [intent |-> "lock", module |-> "system_control", method |-> "lock_screen"],
      [intent |-> "sleep", module |-> "system_control", method |-> "sleep"],
      [intent |-> "open_app", module |-> "system_control", method |-> "open_application"],
      [intent |-> "close_app", module |-> "system_control", method |-> "close_application"],
      [intent |-> "volume", module |-> "system_control", method |-> "control_volume"],
      [intent |-> "brightness", module |-> "system_control", method |-> "control_brightness"],
      [intent |-> "set_alarm", module |-> "task_manager", method |-> "set_alarm"],
      [intent |-> "set_reminder", module |-> "task_manager", method |-> "set_reminder"],
      [intent |-> "create_todo", module |-> "task_manager", method |-> "create_todo"],
      [intent |-> "list_todos", module |-> "task_manager", method |-> "list_todos"],
      [intent |-> "set_timer", module |-> "task_manager", method |-> "set_timer"],
      [intent |-> "send_whatsapp", module |-> "messaging", method |-> "send_whatsapp"],
      [intent |-> "send_email", module |-> "messaging", method |-> "send_email"],
      [intent |-> "weather", module |-> "general_knowledge", method |-> "get_weather"],
      [intent |-> "time", module |-> "general_knowledge", method |-> "get_time"],
      [intent |-> "date", module |-> "general_knowledge", method |-> "get_date"],
      [intent |-> "news", module |-> "general_knowledge", method |-> "get_news"],
      [intent |-> "search", module |-> "general_knowledge", method |-> "web_search"],
      [intent |-> "wikipedia", module |-> "general_knowledge", method |-> "wikipedia_search"],
      [intent |-> "general_query", module |-> "general_knowledge", method |-> "answer_query"],
      [intent |-> "greeting", module |-> "router", method |-> "handle_greeting"],
      [intent |-> "thanks", module |-> "router", method |-> "handle_thanks"],
      [intent |-> "goodbye", module |-> "router", method |-> "handle_goodbye"],
      [intent |-> "help", module |-> "router", method |-> "handle_help"]>>

\* The modules main registers with the router.
Modules == {"system_control", "task_manager", "messaging", "general_knowledge"}

\* What a module method does when route calls it: it returns its message or
\* raises.
HandlerOutcomes == {"returns", "raises"}

\* (the help message is cut short)
_handle_internal_command(name) ==
    CASE name = "handle_greeting" -> "Hello! I'm Strom. How can I help you today?"
      [] name = "handle_thanks" -> "You're welcome! Happy to help."
      [] name = "handle_goodbye" -> "Goodbye! Have a great day!"
      [] name = "handle_help" -> "I can help you with: ..."
      [] OTHER -> "I'm here to assist you."

\* route: the response for intent i when the module method called ends with
\* the given outcome (the message of a method is written <method>).
route(i, outcome) ==
    IF \A k \in 1..Len(RouteMap) : RouteMap[k].intent # i
    THEN "I didn't quite understand that. Could you please rephrase?"
    ELSE Eager(RouteMap[CHOOSE k \in 1..Len(RouteMap) : RouteMap[k].intent = i],
               LAMBDA r :
                   IF r.module = "router" THEN _handle_internal_command(r.method)
                   ELSE IF r.module \notin Modules
                   THEN "Module " \o r.module \o " is not available."
                   ELSE IF outcome = "raises"
                   THEN "Sorry, I encountered an error while processing your request."
                   ELSE "<" \o r.method \o ">")

-----------------------------------------------------------------------------
(* The engine called by one caller at a time.                               *)

MaxThreads == 2    \* threads of the front end alive at a time

ThreadIds == 1..MaxThreads

InitEngine ==
    /\ intent_patterns = IntentPatterns
    /\ app_aliases = AppAliases

InitCaller ==
    /\ op = "none"
    /\ text = ""
    /\ intent = ""
    /\ entities = EmptyMap
    /\ calls = <<>>

InitThreads ==
    /\ t_pc = [th \in ThreadIds |-> "idle"]
    /\ t_text = [th \in ThreadIds |-> ""]
    /\ t_intent = [th \in ThreadIds |-> ""]
    /\ t_entities = [th \in ThreadIds |-> EmptyMap]

-----------------------------------------------------------------------------
(* HotwordListener: detect_hotword and the loop that wakes and stops.       *)

NotSpace(c) == ~IsSpace(c)

\* set(text.split()): the words of a text.
WordSet(s) ==
    {SubSeq(s, i, SpanEnd(s, i, NotSpace)) :
        i \in {k \in 1..Len(s) : /\ NotSpace(CharAt(s, k))
                                  /\ (k = 1 \/ IsSpace(CharAt(s, k - 1)))}}

\* _contains_wake_word and _contains_stop_word, for the phrase configured: the
\* phrase is in the text, or at least half of its words are words of the text.
_contains_word(phrase, t) ==
    \/ Contains(phrase, t)
    \/ 2 * Cardinality(WordSet(phrase) \cap WordSet(t)) >= Cardinality(WordSet(phrase))

\* detect_hotword for the text the recogniser gives for a piece of audio ('':
\* nothing recognised): the wake word is tested first.
detect_hotword(wake, stop, result) ==
    Eager(strip(lower(result)),
          LAMBDA t :
              IF t = "" THEN None
              ELSE IF _contains_word(wake, t) THEN Some("wake")
              ELSE IF _contains_word(stop, t) THEN Some("stop")
              ELSE None)

\* The phrase pairs: the defaults of HotwordListener and those main passes.
HotwordPairs == {[wake |-> "hey storm", stop |-> "stop storm"],
                 [wake |-> "hey strom", stop |-> "stop strom"]}

MaxHeard == 3      \* words in what the recogniser hears at a time

HeardWords == {"hey", "stop", "storm", "strom", "Okay"}

RECURSIVE HeardPhrases(_)
HeardPhrases(n) ==
    IF n = 0 THEN {""}
    ELSE LET P == HeardPhrases(n - 1)
         IN  P \cup {IF p = "" THEN w ELSE p \o " " \o w : p \in P, w \in HeardWords}

HeardTexts == HeardPhrases(MaxHeard)

\* HotwordListener.__init__ as main calls it.
InitListener ==
    /\ wake_word = "hey strom"
    /\ stop_word = "stop strom"
    /\ is_active = FALSE
    /\ heard = ""
    /\ detection = None

-----------------------------------------------------------------------------
(* The task manager: the alarms and reminders it stores. Times are minutes   *)
(* since a midnight.                                                        *)

MaxReminders == 2   \* alarms and reminders stored at a time
MaxTicks == 2       \* hours the wall clock advances

\* What is said to set an alarm or a reminder, classified by the engine.
ReminderTexts == {"set alarm for 1 am", "set alarm", "alarm at 45",
                  "remind me to call mom", "reminder"}

ReminderCommands == {process(IntentPatterns, AppAliases, t) : t \in ReminderTexts}

\* now.replace(hour=hour, minute=minute, second=0, microsecond=0), moved to the
\* next day when it is not after now.
ReplaceClock(t, hour, minute) ==
    Eager((t \div 1440) * 1440 + hour * 60 + minute,
          LAMBDA at : IF at <= t THEN at + 1440 ELSE at)

\* datetime.replace raises ValueError for an hour or a minute no clock shows.
ReplaceRaises(hour, minute) == hour \notin 0..23 \/ minute \notin 0..59

\* _save_reminders: the content of the reminders file afterwards; an error
\* of makedirs or open is caught and leaves the file as it was.
_save_reminders(file, rs, can_write) == IF can_write THEN Some(rs) ELSE file

\* The dict set_alarm and set_reminder append.
Reminder(rs, type, time, message) ==
    [id |-> Len(rs) + 1, type |-> type, time |-> time, message |-> message,
     triggered |-> FALSE]

\* self.reminders.append(r); self._save_reminders()
Store(r) ==
    /\ reminders' = Append(reminders, r)
    /\ reminders_file' = _save_reminders(reminders_file, reminders', writable)

\* TaskManager.__init__ with no reminders file: nothing stored, the checker
\* thread started and not yet in its first pass (the two locals of the loop
\* are assigned by the pass before anything reads them).
InitTasks ==
    /\ reminders = <<>>
    /\ reminders_file = None
    /\ writable = TRUE
    /\ notifications = <<>>
    /\ wall_clock = 0
    /\ checker = "started"
    /\ now = 0
    /\ next_index = 1

-----------------------------------------------------------------------------
(* The state after construction.                                            *)

\* ConversationManager.__init__ with no history file yet, and no turn begun.
InitAssistant ==
    /\ current_context = EmptyMap
    /\ conversation_history = <<>>
    /\ last_intent = None
    /\ last_entities = EmptyMap
    /\ log = <<>>
    /\ step = "idle"
    /\ command = ""
    /\ user_input = ""
    /\ turn_intent = ""
    /\ turn_entities = EmptyMap
    /\ response = ""
    /\ routed = <<>>
    /\ returned = ""

Init ==
    InitEngine /\ InitCaller /\ InitThreads /\ InitAssistant /\ InitListener /\ InitTasks

\* intent, entities = nlp.process(t)
Process(t) ==
    /\ op = "none"
    /\ \E r \in {process(intent_patterns, app_aliases, t)} :
           /\ op' = "process"
           /\ text' = t
           /\ intent' = r.intent
           /\ entities' = r.entities
           /\ calls' = r.calls
    /\ UNCHANGED <<tasks, listener, engine, threads, assistant>>

\* nlp.extract_intent(t)
ExtractIntent(t) ==
    /\ op = "none"
    /\ op' = "extract_intent"
    /\ text' = t
    /\ intent' = extract_intent(intent_patterns, t)
    /\ entities' = EmptyMap
    /\ calls' = <<>>
    /\ UNCHANGED <<tasks, listener, engine, threads, assistant>>

\* nlp.extract_entities(t, i)
ExtractEntities(t, i) ==
    /\ op = "none"
    /\ op' = "extract_entities"
    /\ text' = t
    /\ intent' = i
    /\ entities' = extract_entities(app_aliases, t, i)
    /\ calls' = <<>>
    /\ UNCHANGED <<tasks, listener, engine, threads, assistant>>

\* The caller has used the result and is ready for its next call.
Return ==
    /\ op # "none"
    /\ op' = "none"
    /\ text' = ""
    /\ intent' = ""
    /\ entities' = EmptyMap
    /\ calls' = <<>>
    /\ UNCHANGED <<tasks, listener, engine, threads, assistant>>

Next ==
    \/ \E t \in Utterances : Process(t)
    \/ \E t \in Utterances : ExtractIntent(t)
    \/ \E t \in EntityTexts : \E i \in Intents : ExtractEntities(t, i)
    \/ Return

Spec == Init /\ [][Next]_vars

-----------------------------------------------------------------------------
(* The graphical front end: every text sent starts a thread of its own, and  *)
(* the threads call process on the one engine, each with its own locals.    *)

ThreadTexts == {"exit", "bye", "open Chrome", "banana", "remind me in 2 hours", " "}

\* send_text: a blank entry is dropped, any other text is handed to a new
\* thread, which goes on to call process with it.
SendText(th, t) ==
    /\ t_pc[th] = "idle"
    /\ strip(t) # ""
    /\ t_pc' = [t_pc EXCEPT ![th] = "called"]
    /\ t_text' = [t_text EXCEPT ![th] = t]
    /\ UNCHANGED <<tasks, listener, engine, caller, assistant, t_intent, t_entities>>

\* The table with the entry of intent i moved to its front.
MoveToFront(patterns, i) ==
    SelectSeq(patterns, LAMBDA e : e.intent = i) \o SelectSeq(patterns, LAMBDA e : e.intent # i)

\* ThreadClassify with a most-recently-used cache: the entry of the intent just
\* found is moved to the front of self.intent_patterns.
ThreadClassifyCaching(th) ==
    /\ t_pc[th] = "called"
    /\ \E i \in {extract_intent(intent_patterns, t_text[th])} :
           /\ t_intent' = [t_intent EXCEPT ![th] = i]
           /\ intent_patterns' = MoveToFront(intent_patterns, i)
    /\ t_pc' = [t_pc EXCEPT ![th] = "classified"]
    /\ UNCHANGED <<tasks, listener, app_aliases, caller, assistant, t_text, t_entities>>

\* process, up to intent = self.extract_intent(text): blank text returns at
\* once, any other text is classified against self.intent_patterns.
ThreadClassify(th) ==
    /\ t_pc[th] = "called"
    /\ IF t_text[th] = "" \/ strip(t_text[th]) = ""
       THEN /\ t_intent' = [t_intent EXCEPT ![th] = "unknown"]
            /\ t_entities' = [t_entities EXCEPT ![th] = EmptyMap]
            /\ t_pc' = [t_pc EXCEPT ![th] = "returned"]
       ELSE /\ t_intent' = [t_intent EXCEPT ![th] = extract_intent(intent_patterns, t_text[th])]
            /\ t_pc' = [t_pc EXCEPT ![th] = "classified"]
            /\ UNCHANGED t_entities
    /\ UNCHANGED <<tasks, listener, engine, caller, assistant, t_text>>

\* entities = self.extract_entities(text, intent); return intent, entities
ThreadExtract(th) ==
    /\ t_pc[th] = "classified"
    /\ t_entities' = [t_entities EXCEPT ![th] =
                          extract_entities(app_aliases, t_text[th], t_intent[th])]
    /\ t_pc' = [t_pc EXCEPT ![th] = "returned"]
    /\ UNCHANGED <<tasks, listener, engine, caller, assistant, t_text, t_intent>>

\* The thread answers and ends.
ThreadEnd(th) ==
    /\ t_pc[th] = "returned"
    /\ t_pc' = [t_pc EXCEPT ![th] = "idle"]
    /\ t_text' = [t_text EXCEPT ![th] = ""]
    /\ t_intent' = [t_intent EXCEPT ![th] = ""]
    /\ t_entities' = [t_entities EXCEPT ![th] = EmptyMap]
    /\ UNCHANGED <<tasks, listener, engine, caller, assistant>>

NextThreads ==
    \/ \E th \in ThreadIds : \E t \in ThreadTexts : SendText(th, t)
    \/ \E th \in ThreadIds : ThreadClassify(th)
    \/ \E th \in ThreadIds : ThreadExtract(th)
    \/ \E th \in ThreadIds : ThreadEnd(th)

SpecThreads == Init /\ [][NextThreads]_vars

-----------------------------------------------------------------------------
(* One turn of StromAssistant.process(user_input), step by step.            *)

MaxTurns == 2      \* exchanges recorded in one run of the assistant

\* What the user says, one command a turn.
TurnTexts == {"open chrome", "open explorer", "close it (now)", "add item",
              "the weather", "email to mother", "call him"}

\* The locals of process are gone when it returns.
TurnEnds ==
    /\ step' = "idle"
    /\ command' = ""
    /\ user_input' = ""
    /\ turn_intent' = ""
    /\ turn_entities' = EmptyMap
    /\ response' = ""

\* response = self.process(user_input), called with what was heard or typed.
TurnStart(u) ==
    /\ step = "idle"
    /\ Len(conversation_history) < MaxTurns
    /\ step' = "called"
    /\ command' = u
    /\ user_input' = u
    /\ returned' = ""
    /\ UNCHANGED <<tasks, listener, engine, caller, threads, manager, turn_intent, turn_entities,
                   response, routed>>

\* user_input = self.conv_manager.resolve_pronoun_reference(user_input)
TurnResolve ==
    /\ step = "called"
    /\ user_input' = resolve_pronoun_reference(current_context, user_input)
    /\ step' = "resolved"
    /\ UNCHANGED <<tasks, listener, engine, caller, threads, manager, command, turn_intent,
                   turn_entities, response, routed, returned>>

\* user_input = self.security.sanitize_input(user_input)
TurnSanitize ==
    /\ step = "resolved"
    /\ user_input' = sanitize_input(user_input)
    /\ step' = "sanitized"
    /\ UNCHANGED <<tasks, listener, engine, caller, threads, manager, command, turn_intent,
                   turn_entities, response, routed, returned>>

\* intent, entities = self.nlp.process(user_input)
TurnClassify ==
    /\ step = "sanitized"
    /\ \E r \in {process(intent_patterns, app_aliases, user_input)} :
           /\ turn_intent' = r.intent
           /\ turn_entities' = r.entities
    /\ step' = "classified"
    /\ UNCHANGED <<tasks, listener, engine, caller, threads, manager, command, user_input,
                   response, routed, returned>>

\* is_valid, msg = self.security.validate_command(intent, entities), valid
TurnValidate ==
    /\ step = "classified"
    /\ validate_command(turn_intent, turn_entities).valid
    /\ step' = "validated"
    /\ UNCHANGED <<tasks, listener, engine, caller, threads, manager, command, user_input,
                   turn_intent, turn_entities, response, routed, returned>>

\* TurnReject keeping a record of the refused command: the exchange is added
\* to the history, and the context updated, before msg is returned.
TurnRejectRecording ==
    /\ step = "classified"
    /\ \E v \in {validate_command(turn_intent, turn_entities)} :
           /\ ~v.valid
           /\ returned' = v.msg
           /\ add_exchange(user_input, turn_intent, turn_entities, v.msg, TRUE)
    /\ TurnEnds
    /\ UNCHANGED <<tasks, listener, engine, caller, threads, routed>>

\* if not is_valid: return msg
TurnReject ==
    /\ step = "classified"
    /\ \E v \in {validate_command(turn_intent, turn_entities)} :
           /\ ~v.valid
           /\ returned' = v.msg
    /\ TurnEnds
    /\ UNCHANGED <<tasks, listener, engine, caller, threads, manager, routed>>

\* response = self.router.route(intent, entities)
TurnRoute ==
    /\ step = "validated"
    /\ \E outcome \in HandlerOutcomes : response' = route(turn_intent, outcome)
    /\ routed' = Append(routed, turn_intent)
    /\ step' = "routed"
    /\ UNCHANGED <<tasks, listener, engine, caller, threads, manager, command, user_input,
                   turn_intent, turn_entities, returned>>

\* self.security.log_command(intent, entities): a line is printed.
TurnLog ==
    /\ step = "routed"
    /\ step' = "logged"
    /\ UNCHANGED <<tasks, listener, engine, caller, threads, manager, command, user_input,
                   turn_intent, turn_entities, response, routed, returned>>

\* self.conv_manager.add_exchange(user_input, intent, entities, response);
\* return response
TurnAddExchange ==
    /\ step = "logged"
    /\ \E makedirs_ok \in BOOLEAN :
           add_exchange(user_input, turn_intent, turn_entities, response, makedirs_ok)
    /\ returned' = response
    /\ TurnEnds
    /\ UNCHANGED <<tasks, listener, engine, caller, threads, routed>>

NextTurn ==
    \/ \E u \in TurnTexts : TurnStart(u)
    \/ TurnResolve
    \/ TurnSanitize
    \/ TurnClassify
    \/ TurnValidate
    \/ TurnReject
    \/ TurnRoute
    \/ TurnLog
    \/ TurnAddExchange

SpecTurn == Init /\ [][NextTurn]_vars

-----------------------------------------------------------------------------
(* The conversation manager called method by method, on top of the history  *)
(* an earlier run left in the history file.                                 *)

MaxCalls == 3      \* calls made on the manager in one run

\* _load_history: the exchanges of the file, none when there is no file. A run
\* leaves at most max_history of them.
LoadedExchange(k) == Exchange("weather " \o str(k), "weather", EmptyMap, "<get_weather>")
LoadedHistory(n) == [k \in 1..n |-> LoadedExchange(k)]
LoadedSizes == {0, max_history - 1, max_history}

InitManager ==
    /\ InitEngine /\ InitCaller /\ InitThreads /\ InitListener /\ InitTasks
    /\ current_context = EmptyMap
    /\ conversation_history \in {LoadedHistory(n) : n \in LoadedSizes}
    /\ last_intent = None
    /\ last_entities = EmptyMap
    /\ log = <<>>
    /\ step = "idle"
    /\ command = ""
    /\ user_input = ""
    /\ turn_intent = ""
    /\ turn_entities = EmptyMap
    /\ response = ""
    /\ routed = <<>>
    /\ returned = ""

\* The commands whose exchanges are recorded.
ManagerTexts == {"open chrome", "close notepad", "email to mother",
                 "whatsapp to john saying hi", "the weather"}

\* self.conv_manager.add_exchange(user_input, intent, entities, response)
AddExchange(u) ==
    /\ Len(log) < MaxCalls
    /\ \E r \in {process(intent_patterns, app_aliases, u)} :
           \E makedirs_ok \in BOOLEAN :
               add_exchange(u, r.intent, r.entities, route(r.intent, "returns"), makedirs_ok)
    /\ UNCHANGED <<tasks, listener, engine, caller, threads, turn>>

\* clear_context
ClearContext ==
    /\ Len(log) < MaxCalls
    /\ current_context' = EmptyMap
    /\ last_intent' = None
    /\ last_entities' = EmptyMap
    /\ log' = Append(log, [call |-> "clear_context"])
    /\ UNCHANGED <<tasks, listener, engine, caller, threads, turn, conversation_history>>

\* clear_history
ClearHistory ==
    /\ Len(log) < MaxCalls
    /\ \E makedirs_ok \in BOOLEAN :
           conversation_history' = _save_history(<<>>, makedirs_ok)
    /\ current_context' = EmptyMap
    /\ last_intent' = None
    /\ last_entities' = EmptyMap
    /\ log' = Append(log, [call |-> "clear_history"])
    /\ UNCHANGED <<tasks, listener, engine, caller, threads, turn>>

NextManager ==
    \/ \E u \in ManagerTexts : AddExchange(u)
    \/ ClearContext
    \/ ClearHistory

SpecManager == InitManager /\ [][NextManager]_vars

-----------------------------------------------------------------------------
(* The hotword listener on its own.                                         *)

\* HotwordListener.__init__ with either phrase pair.
InitHotword ==
    /\ InitEngine /\ InitCaller /\ InitThreads /\ InitAssistant /\ InitTasks
    /\ \E p \in HotwordPairs : wake_word = p.wake /\ stop_word = p.stop
    /\ is_active = FALSE
    /\ heard = ""
    /\ detection = None

\* One round of listen_loop: detection = self.detect_hotword(), then the if /
\* elif on it.
ListenLoop(result) ==
    /\ heard' = result
    /\ \E d \in {detect_hotword(wake_word, stop_word, result)} :
           /\ detection' = d
           /\ is_active' = IF d = Some("wake") /\ ~is_active THEN TRUE
                           ELSE IF d = Some("stop") /\ is_active THEN FALSE
                           ELSE is_active
    /\ UNCHANGED <<tasks, engine, caller, threads, assistant, wake_word, stop_word>>

NextHotword == \E result \in HeardTexts : ListenLoop(result)

SpecHotword == InitHotword /\ [][NextHotword]_vars

-----------------------------------------------------------------------------
(* The task manager with its checker thread: the main thread stores alarms   *)
(* and reminders while the checker goes through the list.                   *)

\* set_alarm(entities), called by the router on the main thread.
SetAlarm(e) ==
    /\ Len(reminders) < MaxReminders
    /\ IF "hour" \notin DOMAIN e
       THEN UNCHANGED <<reminders, reminders_file>>
       ELSE IF ReplaceRaises(e["hour"], GetOr(e, "minute", 0))
       THEN UNCHANGED <<reminders, reminders_file>>
       ELSE Store(Reminder(reminders, "alarm",
                           ReplaceClock(wall_clock, e["hour"], GetOr(e, "minute", 0)),
                           "Alarm ringing!"))
    /\ UNCHANGED <<listener, engine, caller, threads, assistant, writable,
                   notifications, wall_clock, checker, now, next_index>>

\* set_reminder(entities), called by the router on the main thread.
SetReminder(e) ==
    /\ Len(reminders) < MaxReminders
    /\ IF strip(GetOr(e, "task", "")) = ""
       THEN UNCHANGED <<reminders, reminders_file>>
       ELSE IF "hour" \notin DOMAIN e
       THEN Store(Reminder(reminders, "reminder", wall_clock + 60,
                           strip(e["task"])))
       ELSE IF ReplaceRaises(e["hour"], GetOr(e, "minute", 0))
       THEN UNCHANGED <<reminders, reminders_file>>
       ELSE Store(Reminder(reminders, "reminder",
                           ReplaceClock(wall_clock, e["hour"], GetOr(e, "minute", 0)),
                           strip(e["task"])))
    /\ UNCHANGED <<listener, engine, caller, threads, assistant, writable,
                   notifications, wall_clock, checker, now, next_index>>

\* _check_reminders_loop: now = datetime.now(), and the for loop begins; at the
\* start of the thread and after each sleep.
CheckerPass ==
    /\ checker \in {"started", "sleeping"}
    /\ now' = wall_clock
    /\ next_index' = 1
    /\ checker' = "iterating"
    /\ UNCHANGED <<listener, engine, caller, threads, assistant, reminders,
                   reminders_file, writable, notifications, wall_clock>>

\* One turn of a for loop that hands a due reminder to _trigger_reminder and
\* leaves its triggered flag as it is.
CheckerStepUnmarked ==
    /\ checker = "iterating"
    /\ next_index <= Len(reminders)
    /\ \E r \in {reminders[next_index]} :
           IF r.triggered \/ now < r.time
           THEN /\ next_index' = next_index + 1
                /\ UNCHANGED <<reminders, reminders_file, notifications, checker>>
           ELSE /\ reminders' = reminders
                /\ notifications' = Append(notifications, r.id)
                /\ \E outcome \in HandlerOutcomes :
                       IF outcome = "raises"
                       THEN /\ checker' = "sleeping"
                            /\ UNCHANGED <<reminders_file, next_index>>
                       ELSE /\ reminders_file' =
                                   _save_reminders(reminders_file, reminders', writable)
                            /\ next_index' = next_index + 1
                            /\ UNCHANGED checker
    /\ UNCHANGED <<listener, engine, caller, threads, assistant, writable,
                   wall_clock, now>>

\* One turn of the for loop, on the element the list iterator is at: a
\* triggered reminder and one not yet due are passed over; a due one is marked,
\* handed to _trigger_reminder and saved. When the print of _trigger_reminder
\* raises, the handler of the loop sleeps and the next pass starts over.
CheckerStep ==
    /\ checker = "iterating"
    /\ next_index <= Len(reminders)
    /\ \E r \in {reminders[next_index]} :
           IF r.triggered \/ now < r.time
           THEN /\ next_index' = next_index + 1
                /\ UNCHANGED <<reminders, reminders_file, notifications, checker>>
           ELSE /\ reminders' = [reminders EXCEPT ![next_index].triggered = TRUE]
                /\ notifications' = Append(notifications, r.id)
                /\ \E outcome \in HandlerOutcomes :
                       IF outcome = "raises"
                       THEN /\ checker' = "sleeping"
                            /\ UNCHANGED <<reminders_file, next_index>>
                       ELSE /\ reminders_file' =
                                   _save_reminders(reminders_file, reminders', writable)
                            /\ next_index' = next_index + 1
                            /\ UNCHANGED checker
    /\ UNCHANGED <<listener, engine, caller, threads, assistant, writable,
                   wall_clock, now>>

\* The list iterator is past the end of the list: time.sleep(30).
CheckerSleep ==
    /\ checker = "iterating"
    /\ next_index > Len(reminders)
    /\ checker' = "sleeping"
    /\ UNCHANGED <<listener, engine, caller, threads, assistant, reminders,
                   reminders_file, writable, notifications, wall_clock, now,
                   next_index>>

\* An hour goes by.
Tick ==
    /\ wall_clock < MaxTicks * 60
    /\ wall_clock' = wall_clock + 60
    /\ UNCHANGED <<listener, engine, caller, threads, assistant, reminders,
                   reminders_file, writable, notifications, checker, now, next_index>>

\* TaskManager.__init__ where the reminders file can be written or cannot
\* (its directory cannot be made, or the file cannot be opened).
InitChecker ==
    /\ InitEngine /\ InitCaller /\ InitThreads /\ InitAssistant /\ InitListener
    /\ reminders = <<>>
    /\ reminders_file = None
    /\ writable \in BOOLEAN
    /\ notifications = <<>>
    /\ wall_clock = 0
    /\ checker = "started"
    /\ now = 0
    /\ next_index = 1

\* The steps of the checker thread.
CheckReminders == CheckerPass \/ CheckerStep \/ CheckerSleep

\* The entities the router hands to the method an intent is routed to.
RoutedEntities(i) == {c.entities : c \in {d \in ReminderCommands : d.intent = i}}

NextTasks ==
    \/ \E e \in RoutedEntities("set_alarm") : SetAlarm(e)
    \/ \E e \in RoutedEntities("set_reminder") : SetReminder(e)
    \/ CheckerPass
    \/ CheckerStep
    \/ CheckerSleep
    \/ Tick

\* The checker is a thread of its own in a loop without an exit: whenever it
\* can take a step it takes one.
SpecTasks == InitChecker /\ [][NextTasks]_vars /\ WF_vars(CheckReminders)

-----------------------------------------------------------------------------
(* Properties of the classifier.                                            *)

Min(S) == CHOOSE x \in S : \A y \in S : x <= y

TableIntents == {IntentPatterns[i].intent : i \in 1..Len(IntentPatterns)}

\* The table entries with a keyword that occurs in s.
Hits(s) ==
    {i \in 1..Len(IntentPatterns) :
        \E k \in 1..Len(IntentPatterns[i].keywords) :
            Contains(IntentPatterns[i].keywords[k], s)}

\* C1: extract_intent returns, for any non-blank text, the first intent in the
\* order of the table that has a keyword occurring in the lower-cased, trimmed
\* text: the earlier-listed of several matching intents wins ('exit' gives
\* close_app, not goodbye), and a single matching intent is returned.
C1_FirstListedIntentWins ==
    (op = "extract_intent" /\ strip(text) # "") =>
        /\ \A hits \in {Hits(strip(lower(text)))} :
               hits # {} => intent = IntentPatterns[Min(hits)].intent
        /\ text = "exit" => intent = "close_app"

\* 'exit' is a keyword of two intents and has been classified.
C1_Witness ==
    /\ op = "extract_intent"
    /\ text = "exit"
    /\ intent = "close_app"
    /\ \E i \in Hits("exit") : IntentPatterns[i].intent = "goodbye"

C3_BlankIsUnknown ==
    op = "process" =>
        IF strip(text) = ""
        THEN intent = "unknown" /\ entities = EmptyMap /\ calls = <<>>
        ELSE /\ intent \in TableIntents \cup {"general_query"}
             /\ intent # "unknown"
             /\ calls = <<"extract_intent", "extract_entities">>

\* process has answered a text of one space and one tab.
C3_Witness ==
    /\ op = "process"
    /\ text = " \t"
    /\ intent = "unknown"
    /\ entities = EmptyMap
    /\ calls = <<>>

-----------------------------------------------------------------------------
(* Properties of the engine shared by threads.                              *)

\* C5: process, extract_intent and extract_entities never modify
\* intent_patterns or app_aliases, and two calls of process with the same text
\* return the same (intent, entities), whatever calls of other threads on the
\* same engine were made before, between or during them.
C5_NoHiddenState ==
    /\ [][intent_patterns' = intent_patterns /\ app_aliases' = app_aliases]_vars
    /\ [](\A a, b \in ThreadIds :
             (t_pc[a] = "returned" /\ t_pc[b] = "returned" /\ t_text[a] = t_text[b])
                 => (t_intent[a] = t_intent[b] /\ t_entities[a] = t_entities[b]))

\* Two threads hold the answer to 'exit' at the same time.
C5_Witness ==
    /\ \A th \in {1, MaxThreads} : t_pc[th] = "returned" /\ t_text[th] = "exit"
    /\ t_intent[1] = "close_app"

-----------------------------------------------------------------------------
(* Properties of the entities.                                              *)

TimeKeys == {"hour", "minute", "duration_seconds"}

\* C6: the keys of the entities map are fixed by the intent: open_app and
\* close_app give exactly {app_name}; send_whatsapp and send_email exactly
\* {recipient, message}; set_alarm and set_timer a subset of {hour, minute,
\* duration_seconds}; set_reminder such a subset plus task; create_todo exactly
\* {task}; search and wikipedia exactly {query}; volume and brightness exactly
\* {level, action}; every other intent the empty map.
C6_KeysByIntent ==
    op \in {"process", "extract_entities"} =>
        \A keys \in {DOMAIN entities} :
            CASE intent \in {"open_app", "close_app"} -> keys = {"app_name"}
              [] intent \in {"send_whatsapp", "send_email"} -> keys = {"recipient", "message"}
              [] intent \in {"set_alarm", "set_timer"} -> keys \subseteq TimeKeys
              [] intent = "set_reminder" ->
                    "task" \in keys /\ keys \ {"task"} \subseteq TimeKeys
              [] intent = "create_todo" -> keys = {"task"}
              [] intent \in {"search", "wikipedia"} -> keys = {"query"}
              [] intent \in {"volume", "brightness"} -> keys = {"level", "action"}
              [] OTHER -> keys = {}

\* process has answered a reminder: the time keys and task.
C6_Witness ==
    /\ op = "process"
    /\ intent = "set_reminder"
    /\ DOMAIN entities = TimeKeys \cup {"task"}

\* The aliases of the table that occur in s.
AliasHits(s) == {a \in 1..Len(AppAliases) : Contains(AppAliases[a].alias, s)}

\* At position i of s stands verb, then white space up to j, then a longest run
\* of word characters from j to k.
FollowsAt(s, i, verb, j, k) ==
    /\ StartsWithAt(s, i, verb)
    /\ j > i + Len(verb)
    /\ \A x \in (i + Len(verb))..(j - 1) : IsSpace(CharAt(s, x))
    /\ j <= k /\ k <= Len(s)
    /\ \A x \in j..k : IsWord(CharAt(s, x))
    /\ (k = Len(s) \/ ~IsWord(CharAt(s, k + 1)))

\* The places of s where verb is followed by a word, each with that word.
Following(s, verb) ==
    UNION {{<<i, SubSeq(s, j, k)>> : <<j, k>> \in
               {x \in ((i + 1)..Len(s)) \X ((i + 1)..Len(s)) :
                   FollowsAt(s, i, verb, x[1], x[2])}}
           : i \in {h \in 1..Len(s) : StartsWithAt(s, h, verb)}}

\* The word after the first place where verb is followed by one.
FirstFollowing(s, verb) ==
    (CHOOSE f \in Following(s, verb) : \A g \in Following(s, verb) : f[1] <= g[1])[2]

VerbOrder == <<"open", "launch", "close", "start">>

\* The verbs, by their place in VerbOrder, that a word follows somewhere in s.
VerbsFollowed(s) == {v \in 1..Len(VerbOrder) : Following(s, VerbOrder[v]) # {}}

ExpectedAppName(s) ==
    IF AliasHits(s) # {} THEN AppAliases[Min(AliasHits(s))].full_name
    ELSE IF VerbsFollowed(s) # {} THEN FirstFollowing(s, VerbOrder[Min(VerbsFollowed(s))])
    ELSE "unknown"

\* C7: for open_app and close_app, app_name is the canonical name of the first
\* alias, in the order of app_aliases, that occurs in the text ('open chrome'
\* gives 'google chrome'); with no alias in the text it is the word following
\* open, launch, close or start, tried in that order ('open xyz123' gives
\* 'xyz123'); with neither it is 'unknown' ('open' alone).
C7_AppName ==
    (op \in {"process", "extract_entities"} /\ intent \in {"open_app", "close_app"}) =>
        /\ entities["app_name"] = ExpectedAppName(strip(lower(text)))
        /\ text = "open Chrome" => entities["app_name"] = "google chrome"
        /\ text = "open xyz123" => entities["app_name"] = "xyz123"
        /\ text = "open" => entities["app_name"] = "unknown"

\* A command with two verbs followed by a word and no alias: the word after
\* 'open' is taken although 'close' comes first in the text.
C7_Witness ==
    /\ op = "process"
    /\ text = "please close xyz123 and open banana"
    /\ AliasHits(text) = {}
    /\ VerbsFollowed(text) = {1, 3}
    /\ entities["app_name"] = "banana"

\* The clock times said with am or pm and no other number in the utterance.
ClockCases ==
    {[text |-> ClockText(f, h, mm, sp, p), h |-> h, mm |-> mm, p |-> p] :
        f \in ClockFrames, h \in ClockHours, mm \in ClockMinutes,
        sp \in {"", " "}, p \in {"am", "pm"}}
    \cup {[text |-> ClockOnly("at " \o ClockPhrase(h, None, "", p)),
           h |-> h, mm |-> None, p |-> p] : h \in {5, 12}, p \in {"am", "pm"}}

\* The hour of the 24-hour clock for hour h of the 12-hour clock.
Hour24(h, p) ==
    IF p = "pm" THEN (IF h = 12 THEN 12 ELSE h + 12)
    ELSE (IF h = 12 THEN 0 ELSE h)

TimePart(e) == [k \in DOMAIN e \cap TimeKeys |-> e[k]]

UnitSeconds(u) == CASE u = "hour" -> 3600 [] u = "minute" -> 60 [] u = "second" -> 1

\* The reminders that hold a duration and no clock time.
DurationCases ==
    {[text |-> DurationOnly(DurationPhrase(n, u, pl)), seconds |-> n * UnitSeconds(u)] :
        n \in DurationCounts, u \in DurationUnits, pl \in {"", "s"}}

\* C9: an utterance with a duration phrase and no clock time, such as 'remind
\* me in 2 hours', yields the time map {duration_seconds: N * unit factor}, with
\* no hour or minute key made from the number of the duration.
C9_DurationOnly ==
    op = "process" =>
        \A c \in DurationCases :
            text = c.text => TimePart(entities) = ("duration_seconds" :> c.seconds)

\* The reminders that hold both a duration and a clock time, each with the two
\* reminders that hold one of them.
BothCases ==
    {[text |-> DurationThenClock(d, c), duration |-> DurationOnly(d), clock |-> ClockOnly(c)] :
        d \in DurationPhrases, c \in AtClockPhrases}
    \cup {[text |-> ClockThenDuration(d, c), duration |-> DurationOnly(d), clock |-> ClockOnly(c)] :
        d \in DurationPhrases, c \in AtClockPhrases}

\* C10: for an utterance with both a clock time and a duration, such as 'remind
\* me in 2 hours at 5pm', hour and duration_seconds are both set,
\* duration_seconds is that of the utterance without the clock time, and hour
\* and minute are those of the utterance without the duration.
C10_ClockAndDurationIndependent ==
    op = "process" =>
        \A b \in BothCases :
            text = b.text =>
                \A d \in {process(intent_patterns, app_aliases, b.duration).entities},
                   c \in {process(intent_patterns, app_aliases, b.clock).entities} :
                    /\ {"hour", "minute", "duration_seconds"} \subseteq DOMAIN entities
                    /\ entities["duration_seconds"] = d["duration_seconds"]
                    /\ entities["hour"] = c["hour"]
                    /\ entities["minute"] = c["minute"]

-----------------------------------------------------------------------------
(* Properties of the task, search, level, action and message extractors.    *)

\* C11: task-text extraction removes the command stopwords first and the time
\* expressions second and returns the trimmed remainder; for 'remind me to call
\* mom at 5pm' the task text is 'to call mom', with the time phrase removed.
C11_TaskText ==
    (op = "process" /\ intent \in {"create_todo", "set_reminder"}) =>
        /\ entities["task"] =
               strip(re_sub_empty("in_duration",
                         re_sub_empty("at_time",
                             RemoveWordsLoop(1, strip(lower(text))))))
        /\ text = "remind me to call mom at 5pm" => entities["task"] = "to call mom"

\* The lead-in phrases of a search.
LeadIns == <<"search for", "search", "look up", "find me", "find", "google",
             "wikipedia", "tell me about">>

\* C12: for every utterance classified as search or wikipedia the query is the
\* lower-cased utterance with the lead-in phrases removed and the remainder
\* trimmed, so that the query never still begins with a lead-in phrase ('search
\* for python tutorials' gives 'python tutorials').
C12_SearchQuery ==
    (op = "process" /\ intent \in {"search", "wikipedia"}) =>
        /\ entities["query"] = strip(RemovePatternsLoop(1, strip(lower(text))))
        /\ \A k \in 1..Len(LeadIns) : ~StartsWithAt(entities["query"], 1, LeadIns[k])
        /\ text = "search for python tutorials" => entities["query"] = "python tutorials"

\* The level a level word stands for.
BucketLevel(w) ==
    IF w \in {"max", "maximum", "full", "hundred"} THEN Some(100)
    ELSE IF w \in {"min", "minimum", "zero"} THEN Some(0)
    ELSE IF w \in {"half", "fifty"} THEN Some(50)
    ELSE None

\* The number of a percentage phrase.
PercentValue(pc) ==
    CASE pc = "50 percent" -> Some(50)
      [] pc = "80%" -> Some(80)
      [] pc = "7 %" -> Some(7)
      [] pc = "150 percent" -> Some(150)
      [] OTHER -> None

\* The level asked for by two level words and a percentage phrase.
ExpectedLevel(w1, w2, pc) ==
    IF PercentValue(pc) # None THEN PercentValue(pc)
    ELSE IF Some(100) \in {BucketLevel(w1), BucketLevel(w2)} THEN Some(100)
    ELSE IF Some(0) \in {BucketLevel(w1), BucketLevel(w2)} THEN Some(0)
    ELSE IF Some(50) \in {BucketLevel(w1), BucketLevel(w2)} THEN Some(50)
    ELSE None

LevelCases ==
    {[text |-> LevelText(w1, w2, pc), level |-> ExpectedLevel(w1, w2, pc)] :
        w1 \in LevelWords, w2 \in LevelWords, pc \in PercentPhrases}

\* C13: level extraction tries in strict order: 'N percent' or 'N%' gives N;
\* otherwise max, maximum, full or hundred gives 100; otherwise min, minimum or
\* zero gives 0; otherwise half or fifty gives 50; otherwise None ('set volume
\* to 50 percent' gives 50, 'turn volume up' gives None).
C13_LevelOrder ==
    op = "process" =>
        /\ \A c \in LevelCases :
               text = c.text => (intent = "volume" /\ entities["level"] = c.level)
        /\ text = "set volume to 50 percent" => entities["level"] = Some(50)
        /\ text = "turn volume up" => entities["level"] = None

\* A command with a word for 0, a word for 100 and a percentage: the
\* percentage is the level.
C13_Witness ==
    /\ op = "process"
    /\ text = LevelText("min", "max", "7 %")
    /\ entities["level"] = Some(7)

IncreaseWords == {"up", "increase", "raise", "higher", "louder", "brighter"}
DecreaseWords == {"down", "decrease", "lower", "dimmer", "quieter"}

\* C14: action extraction gives every volume or brightness utterance exactly
\* one of increase, decrease, mute, unmute, set, by keyword: an increase word
\* gives increase; a decrease word decrease; mute or silent gives mute; unmute
\* gives unmute; none of these gives set.  An utterance with 'unmute' and no
\* increase or decrease word has the action 'unmute'.
C14_ActionBuckets ==
    (op = "process" /\ intent \in {"volume", "brightness"}) =>
        \A s \in {strip(lower(text))} :
            /\ entities["action"] \in {"increase", "decrease", "mute", "unmute", "set"}
            /\ AnyIn(IncreaseWords, s) => entities["action"] = "increase"
            /\ (~AnyIn(IncreaseWords, s) /\ AnyIn(DecreaseWords, s))
                   => entities["action"] = "decrease"
            /\ (~AnyIn(IncreaseWords \cup DecreaseWords, s) /\ Contains("unmute", s))
                   => entities["action"] = "unmute"
            /\ (~AnyIn(IncreaseWords \cup DecreaseWords \cup {"unmute"}, s)
                    /\ AnyIn({"mute", "silent"}, s))
                   => entities["action"] = "mute"
            /\ ~AnyIn(IncreaseWords \cup DecreaseWords \cup {"mute", "silent"}, s)
                   => entities["action"] = "set"

\* C15: process('send whatsapp to john saying hello there') returns the intent
\* send_whatsapp with exactly the entities recipient 'john' and message 'hello
\* there': the recipient is the name after 'to', without the word that
\* introduces the message.
C15_WhatsappEndToEnd ==
    (op = "process" /\ text = "send whatsapp to john saying hello there") =>
        /\ intent = "send_whatsapp"
        /\ DOMAIN entities = {"recipient", "message"}
        /\ entities["recipient"] = "john"
        /\ entities["message"] = "hello there"

\* Somewhere in s, kw is followed by white space.
FollowedBySpace(s, kw) ==
    \E i \in 1..Len(s) :
        /\ StartsWithAt(s, i, kw)
        /\ i + Len(kw) <= Len(s)
        /\ IsSpace(CharAt(s, i + Len(kw)))

HasDigit(s) == \E i \in 1..Len(s) : IsDigit(CharAt(s, i))

IsDecimal(s) == s # "" /\ \A i \in 1..Len(s) : IsDigit(CharAt(s, i))

\* The sentinels of the entities missing from the trimmed, lower-cased text s.
SentinelsFor(s) ==
    /\ intent \in {"open_app", "close_app"} =>
           ((AliasHits(s) = {} /\ VerbsFollowed(s) = {}) => entities["app_name"] = "unknown")
    /\ intent \in {"send_whatsapp", "send_email"} =>
           /\ (\A kw \in {"to", "message", "whatsapp", "email"} : Following(s, kw) = {})
                  <=> entities["recipient"] = ""
           /\ (\A kw \in {"saying", "message", "text", "that", "tell them"} :
                  ~FollowedBySpace(s, kw))
                  <=> entities["message"] = ""
    /\ intent \in {"set_alarm", "set_reminder", "set_timer"} =>
           (~HasDigit(s) => DOMAIN entities \cap TimeKeys = {})
    /\ intent \in {"volume", "brightness"} =>
           ((~HasDigit(s) /\ \A w \in LevelWords \ {""} : ~Contains(w, s))
                => entities["level"] = None)

C17_TaskId ==
    (op \in {"process", "extract_entities"}
        /\ text \in {"complete task 3", "delete number 3"})
        => ("task_id" \in DOMAIN entities /\ entities["task_id"] = 3)


-----------------------------------------------------------------------------
(* Properties of reference resolution and of the turn.                      *)

\* The word w occurs in s as a word of its own.
HasWord(s, w) ==
    \E i \in 1..Len(s) :
        /\ StartsWithAt(s, i, w)
        /\ (i = 1 \/ ~IsWord(CharAt(s, i - 1)))
        /\ (i + Len(w) > Len(s) \/ ~IsWord(CharAt(s, i + Len(w))))

Pronouns == {"it", "that", "him", "her", "them"}

\* C18: resolve_pronoun_reference returns the text unchanged, whatever the
\* context, when none of it, that, him, her, them occurs in it as a word, also
\* when the letters of a pronoun occur inside a longer word ('item',
\* 'weather').
C18_NoPronounUnchanged ==
    (step = "resolved" /\ \A w \in Pronouns : ~HasWord(command, w))
        => user_input = command

\* What a word stands for: the remembered value when the word is a pronoun
\* whose context key is present, the word itself otherwise.
Referent(context, word) ==
    IF word \in {"it", "that"} /\ "last_app" \in DOMAIN context
    THEN context["last_app"]
    ELSE IF word \in {"him", "her", "them"} /\ "last_recipient" \in DOMAIN context
    THEN context["last_recipient"]
    ELSE word

\* The text with every word replaced by what it stands for, from position i on.
RECURSIVE ResolvedFrom(_, _, _)
ResolvedFrom(context, s, i) ==
    IF i > Len(s) THEN ""
    ELSE IF IsWord(CharAt(s, i))
    THEN Eager(SpanEnd(s, i, IsWord),
               LAMBDA j : Referent(context, SubSeq(s, i, j))
                          \o ResolvedFrom(context, s, j + 1))
    ELSE CharAt(s, i) \o ResolvedFrom(context, s, i + 1)

\* C19: in a text that holds a pronoun word, each pronoun word whose context
\* key is present is replaced by exactly the remembered value, a pronoun word
\* whose key is absent is left untouched, and nothing else changes.
C19_PronounsByRememberedValue ==
    (step = "resolved" /\ \E w \in Pronouns : HasWord(command, w))
        => user_input = ResolvedFrom(current_context, command, 1)


\* What each step of a turn has established when it is reached: the command
\* resolved against the context, then sanitised, then classified, then found
\* valid, then routed.
TurnSoFar ==
    /\ step = "resolved" =>
           user_input = resolve_pronoun_reference(current_context, command)
    /\ step \in {"sanitized", "classified", "validated", "routed", "logged"} =>
           user_input = sanitize_input(resolve_pronoun_reference(current_context, command))
    /\ step \in {"classified", "validated", "routed", "logged"} =>
           \A r \in {process(intent_patterns, app_aliases, user_input)} :
               turn_intent = r.intent /\ turn_entities = r.entities
    /\ step \in {"validated", "routed", "logged"} =>
           validate_command(turn_intent, turn_entities).valid
    /\ step \in {"routed", "logged"} =>
           /\ routed # <<>>
           /\ routed[Len(routed)] = turn_intent
    /\ step \in {"called", "resolved", "sanitized", "classified", "validated"} =>
           response = ""

\* The steps of a turn, each followed by the next one only.
StepOrder ==
    {<<"idle", "called">>, <<"called", "resolved">>, <<"resolved", "sanitized">>,
     <<"sanitized", "classified">>, <<"classified", "validated">>,
     <<"classified", "idle">>, <<"validated", "routed">>, <<"routed", "logged">>,
     <<"logged", "idle">>}

\* One step of a turn: context and history change only when add_exchange
\* records the routed command, the router is called only with a command found
\* valid, and a refused command ends the turn with the message of the refusal.
TurnStep ==
    /\ step' # step => <<step, step'>> \in StepOrder
    /\ manager' # manager =>
           /\ step = "logged" /\ step' = "idle"
           /\ routed' = routed
           /\ conversation_history' =
                  Append(conversation_history,
                         Exchange(user_input, turn_intent, turn_entities, response))
           /\ current_context' = _update_context(current_context, turn_intent, turn_entities)
    /\ routed' # routed =>
           /\ step = "validated"
           /\ validate_command(turn_intent, turn_entities).valid
    /\ (step = "classified" /\ ~validate_command(turn_intent, turn_entities).valid) =>
           /\ step' = "idle"
           /\ returned' = validate_command(turn_intent, turn_entities).msg
           /\ routed' = routed
           /\ manager' = manager

-----------------------------------------------------------------------------
(* Properties of the ranges of the extracted values.                        *)

\* C21: whenever time extraction gives hour and minute, they are a time of the
\* 24-hour clock: 0 <= hour <= 23 and 0 <= minute <= 59.
C21_ClockRange ==
    (op \in {"process", "extract_entities"} /\ "hour" \in DOMAIN entities)
        => /\ entities["hour"] \in 0..23
           /\ "minute" \in DOMAIN entities
           /\ entities["minute"] \in 0..59


\* C22: the level _extract_level returns is None or an integer of 0..100, also
\* for an utterance that states a percentage above 100.
C22_LevelRange ==
    (op \in {"process", "extract_entities"} /\ "level" \in DOMAIN entities)
        => (entities["level"] = None \/ entities["level"][1] \in 0..100)


\* The duration phrases of one or two units with the seconds they stand for:
\* of two phrases the one whose unit comes later in hour, minute, second, and
\* of two phrases of one unit the first.
UnitRank(u) == CASE u = "hour" -> 1 [] u = "minute" -> 2 [] u = "second" -> 3

TimerCases ==
    {[text |-> TimerOne(d), seconds |-> d.n * UnitSeconds(d.unit)] : d \in TimerDurations}
    \cup {[text |-> TimerTwo(d1, d2),
           seconds |-> IF UnitRank(d2.unit) > UnitRank(d1.unit)
                       THEN d2.n * UnitSeconds(d2.unit)
                       ELSE d1.n * UnitSeconds(d1.unit)] :
            d1 \in TimerDurations, d2 \in TimerDurations}

\* C23: a single phrase of N hours, minutes or seconds gives N*3600, N*60 or
\* N; with phrases in more than one unit the value of the unit that comes last
\* in the order hour, minute, second is kept, and the phrases are not summed
\* ('1 hour 30 minutes' gives 1800).
C23_DurationLastUnit ==
    op = "process" =>
        \A c \in TimerCases :
            text = c.text =>
                /\ "duration_seconds" \in DOMAIN entities
                /\ entities["duration_seconds"] = c.seconds

C23_Witness ==
    /\ op = "process"
    /\ text = "timer 1 hour 30 minutes"
    /\ entities["duration_seconds"] = 1800


-----------------------------------------------------------------------------
(* Properties of the conversation manager.                                  *)

\* The index of the last clear_context or clear_history call, 0 when the
\* context was never cleared.
LastClear ==
    IF \A k \in 1..Len(log) : log[k].call = "add_exchange" THEN 0
    ELSE CHOOSE k \in 1..Len(log) :
             /\ log[k].call # "add_exchange"
             /\ \A h \in (k + 1)..Len(log) : log[h].call = "add_exchange"

\* The exchanges of the given intents recorded since the last clear.
RecordedSince(intents) ==
    {k \in (LastClear + 1)..Len(log) : log[k].intent \in intents}

\* The context key holds the entity of the most recent of these exchanges, and
\* is absent when there is none.
Remembers(key, intents, entity) ==
    \A since \in {RecordedSince(intents)} :
        IF since = {} THEN key \notin DOMAIN current_context
        ELSE /\ key \in DOMAIN current_context
             /\ current_context[key] =
                    log[CHOOSE k \in since : \A h \in since : h <= k].entities[entity]

\* C24: after any sequence of add_exchange and clear calls, last_app is the
\* app_name of the most recent open_app or close_app exchange since the last
\* clear and last_recipient the recipient of the most recent send_whatsapp or
\* send_email exchange since the last clear; a key is absent when there was no
\* such exchange, and exchanges of other intents change neither.
C24_ContextRemembersLatest ==
    /\ Remembers("last_app", {"open_app", "close_app"}, "app_name")
    /\ Remembers("last_recipient", {"send_whatsapp", "send_email"}, "recipient")

\* An application opened, the context cleared, then a message sent.
C24_Witness ==
    /\ Len(log) = 3
    /\ log[1].call = "add_exchange" /\ log[1].intent = "open_app"
    /\ log[2].call = "clear_context"
    /\ log[3].call = "add_exchange" /\ log[3].intent = "send_email"
    /\ "last_app" \notin DOMAIN current_context
    /\ current_context["last_recipient"] = "mother"


\* A step in which add_exchange was called.
Added == Len(log') = Len(log) + 1 /\ log'[Len(log')].call = "add_exchange"

\* The last n entries of a list.
LastEntries(h, n) == IF Len(h) > n THEN SubSeq(h, Len(h) - n + 1, Len(h)) ELSE h

\* C25: after every add_exchange the history holds at most max_history
\* exchanges, the most recently added ones in the order they arrived, also
\* when the history file cannot be written.
C25_HistoryBounded ==
    [][Added =>
          /\ Len(conversation_history') <= max_history
          /\ conversation_history' # <<>>
          /\ \A x \in {conversation_history'[Len(conversation_history')]} :
                 conversation_history' =
                     LastEntries(Append(conversation_history, x), max_history)]_vars


-----------------------------------------------------------------------------
(* Properties of the hotword listener, of the intent table and of the       *)
(* validation of application names.                                         *)

\* C26: detect_hotword returns 'wake' when the text recognised is the wake
\* phrase and 'stop' when it is the stop phrase, for both phrase pairs; the
\* stop phrase is never reported as 'wake', and the assistant that hears it is
\* not active afterwards.
C26_StopIsNotWake ==
    /\ heard = wake_word => detection = Some("wake")
    /\ heard = stop_word => (detection = Some("stop") /\ ~is_active)


\* The intents of the table that some utterance reaches. A text that holds a
\* keyword of an intent holds every keyword inside that keyword too, so an
\* intent is reached by some text exactly when it is reached by one of its own
\* keywords said alone.
ReachedIntents ==
    {intent_patterns[i].intent : i \in
        {j \in 1..Len(intent_patterns) :
            \E k \in 1..Len(intent_patterns[j].keywords) :
                extract_intent(intent_patterns, intent_patterns[j].keywords[k])
                    = intent_patterns[j].intent}}

\* C27: every intent of the pattern table, list_todos and goodbye among them,
\* is returned by extract_intent for at least one utterance.
C27_EveryIntentReachable ==
    \A i \in 1..Len(intent_patterns) : intent_patterns[i].intent \in ReachedIntents


\* The clock texts with a dotted period, with the hour of the 24-hour clock
\* they name.
DottedCases ==
    {[text |-> ClockText(f, h, mm, sp, p),
      hour |-> IF p = "p.m." THEN (IF h = 12 THEN 12 ELSE h + 12)
               ELSE (IF h = 12 THEN 0 ELSE h)] :
        f \in ClockFrames, h \in ClockHours, mm \in ClockMinutes,
        sp \in {"", " "}, p \in {"a.m.", "p.m."}}

\* C28: the 12-hour conversion is applied for the dotted periods too: '7 p.m.'
\* gives hour 19 and '12 a.m.' hour 0, as '7 pm' and '12 am' do.
C28_DottedPeriods ==
    op = "process" =>
        \A c \in DottedCases :
            text = c.text => ("hour" \in DOMAIN entities /\ entities["hour"] = c.hour)


\* The application names the alias table resolves to.
CanonicalNames == {app_aliases[k].full_name : k \in 1..Len(app_aliases)}

\* C29: an open_app or close_app command whose application name comes from the
\* alias table passes validate_command, and so is handed to the router.
C29_AliasesPassValidation ==
    (/\ step = "classified"
     /\ turn_intent \in {"open_app", "close_app"}
     /\ turn_entities["app_name"] \in CanonicalNames)
        => validate_command(turn_intent, turn_entities).valid


-----------------------------------------------------------------------------
(* Properties of the reminder checker.                                      *)

\* The reminder at place k of the list is stored and its time has passed.
Due(k) == k \in 1..Len(reminders) /\ wall_clock >= reminders[k].time

\* The reminder at place k of the list has been handed to _trigger_reminder.
Triggered(k) ==
    /\ k \in 1..Len(reminders)
    /\ \E n \in 1..Len(notifications) : notifications[n] = reminders[k].id

\* No reminder has been handed to _trigger_reminder twice.
TriggeredOnce ==
    \A m, n \in 1..Len(notifications) : notifications[m] = notifications[n] => m = n

\* C30: each alarm or reminder stored is triggered at most once, and every
\* stored one whose time has passed is eventually triggered by the checker
\* thread, also when set_alarm or set_reminder append to the list while the
\* checker iterates over it.
C30_TriggeredOnceAndEventually ==
    /\ []TriggeredOnce
    /\ \A k \in 1..MaxReminders : Due(k) ~> Triggered(k)

\* The checker is inside a pass that has triggered the first reminder, and a
\* reminder for an hour later was appended after the pass began: it is still
\* ahead of the list iterator.
C30_Witness ==
    /\ checker = "iterating"
    /\ Triggered(1)
    /\ \E k \in 2..Len(reminders) :
           /\ k >= next_index
           /\ reminders[k].message = "me to call mom"
           /\ reminders[k].time > now + 60

=============================================================================
